---- MODULE Spec2Model ----
(***************************************************************************)
(* SERP scraper: the query loop of src/main.js, the paginators and the     *)
(* retrying page call of the Serper search and maps providers, and the     *)
(* domain matcher.                                                         *)
(*                                                                         *)
(* Text that the program inspects (domains, links, hostnames) is a         *)
(* sequence of one-character strings, with the scheme "https://" as one    *)
(* element.  Text that the program only builds or copies (titles, error    *)
(* messages, the rank sentinel) is a TLA+ string.                          *)
(***************************************************************************)
EXTENDS Integers, Sequences, FiniteSets, TLC

(***************************************************************************)
(* Bounds of the model.                                                    *)
(***************************************************************************)
\* number of entries of input.queries
NumQueries == 2
\* the provider has nothing to return from this page index on
MaxPages == 3
\* longest batch handed to the matcher on its own
MaxBatch == 2
\* most www. labels in front of a domain handed to normalizeDomain on its own
MaxWww == 2

MaxRestarts == 1

(***************************************************************************)
(* Program constants.                                                      *)
(***************************************************************************)
\* "Serper returns 10 per page"
PageSize == 10
\* this.maxRetries
maxRetries == 3
\* this.retryDelay, in ms
retryDelay == 1000

(***************************************************************************)
(* String primitives of the matcher, on sequences of characters.           *)
(***************************************************************************)
Scheme == "https://"

\* String.prototype.toLowerCase on one character of the model's alphabet
LowerChar(c) ==
    CASE c = "E" -> "e"
      [] c = "X" -> "x"
      [] c = "C" -> "c"
      [] c = "O" -> "o"
      [] c = "W" -> "w"
      [] OTHER -> c

toLowerCase(s) == [i \in 1..Len(s) |-> LowerChar(s[i])]

\* s.endsWith(p)
endsWith(s, p) == Len(p) <= Len(s) /\ SubSeq(s, Len(s) - Len(p) + 1, Len(s)) = p

\* s.includes(p): p occurs in s as a contiguous run (the empty p always does)
includes(s, p) ==
    \E i \in 1..(Len(s) + 1) :
        i + Len(p) - 1 <= Len(s) /\ SubSeq(s, i, i + Len(p) - 1) = p

\* s.replace(/^www\./i, '')
StripWww(s) ==
    IF Len(s) >= 4 /\ toLowerCase(SubSeq(s, 1, 4)) = <<"w", "w", "w", ".">>
    THEN SubSeq(s, 5, Len(s))
    ELSE s

RECURSIVE SplitFrom(_, _, _)
\* the segments of s from index i on, cur being the segment read so far
SplitFrom(s, i, cur) ==
    IF i > Len(s) THEN <<cur>>
    ELSE IF s[i] = "." THEN <<cur>> \o SplitFrom(s, i + 1, <<>>)
    ELSE SplitFrom(s, i + 1, Append(cur, s[i]))

\* s.split('.'): the empty string gives one empty segment
split(s) == SplitFrom(s, 1, <<>>)

\* index of the first "/" of s at or after i, or Len(s) + 1
RECURSIVE SlashFrom(_, _)
SlashFrom(s, i) ==
    IF i > Len(s) \/ s[i] = "/" THEN i ELSE SlashFrom(s, i + 1)

\* new URL(url): parses when url is the scheme followed by a non-empty host;
\* hostname is the text up to the first "/", lowercased by the parser.
URLParses(url) ==
    /\ Len(url) >= 2
    /\ url[1] = Scheme
    /\ SlashFrom(url, 2) > 2
    /\ \A i \in 2..Len(url) : url[i] # Scheme

URLHostname(url) == toLowerCase(SubSeq(url, 2, SlashFrom(url, 2) - 1))

\* variant of extractHostname: a link that is no URL is taken as a hostname
extractHostname_Raw(url) ==
    IF URLParses(url) THEN toLowerCase(StripWww(URLHostname(url)))
    ELSE toLowerCase(StripWww(url))

\* extractHostname(url)
extractHostname(url) ==
    IF URLParses(url) THEN toLowerCase(StripWww(URLHostname(url))) ELSE <<>>

\* normalizeDomain(domain)
normalizeDomain(domain) ==
    IF domain = <<>> THEN <<>>
    ELSE LET url == IF Scheme \in {domain[i] : i \in 1..Len(domain)}
                    THEN domain
                    ELSE <<Scheme>> \o domain
         IN  IF URLParses(url)
             THEN toLowerCase(StripWww(URLHostname(url)))
             ELSE toLowerCase(StripWww(domain))

(***************************************************************************)
(* JavaScript values that are null, a number or a string.                  *)
(***************************************************************************)
\* null where a string built by the program is expected
Null == "<null>"
\* null where inspected text is expected
NullText == <<"<null>">>
JsNull == [t |-> "null", n |-> 0, s |-> ""]
JsNumber(n) == [t |-> "number", n |-> n, s |-> ""]
JsString(s) == [t |-> "string", n |-> 0, s |-> s]

(***************************************************************************)
(* The matcher (src/main.js).                                              *)
(***************************************************************************)
\* item.link || ''  (an item of the maps provider has no link field)
ItemLink(item) == IF "link" \in DOMAIN item THEN item.link ELSE <<>>

exactMatch(host, target) == host = target

subdomainMatch(host, target) == endsWith(host, <<".">> \o target)

\* variant of partialMatch: the parts of host and target change roles
partialMatch_Swapped(host, target) ==
    LET hostParts == split(host)
        targetParts == split(target)
    IN  \A j \in 1..Len(hostParts) :
            \E i \in 1..Len(targetParts) : includes(targetParts[i], hostParts[j])

\* variant of partialMatch: the target as one run of the whole hostname
partialMatch_Whole(host, target) == includes(host, target)

partialMatch(host, target) ==
    LET hostParts == split(host)
        targetParts == split(target)
    IN  \A i \in 1..Len(targetParts) :
            \E j \in 1..Len(hostParts) : includes(hostParts[j], targetParts[i])

\* the condition of the if in the loop of findFirstDomainMatch
ItemMatches(item, target) ==
    LET host == extractHostname(ItemLink(item))
    IN  exactMatch(host, target) \/ subdomainMatch(host, target)
            \/ partialMatch(host, target)

NoMatch == [found |-> FALSE, link |-> <<>>, title |-> "", position |-> 0]

\* variant of findFirstDomainMatch: the first exact or subdomain match of the
\* batch if there is one, the first match of any tier otherwise
findFirstDomainMatch_BestTier(items, domain) ==
    LET target == normalizeDomain(domain)
        host(i) == extractHostname(ItemLink(items[i]))
        hits == {i \in 1..Len(items) : ItemMatches(items[i], target)}
        best == {i \in hits : exactMatch(host(i), target)
                                \/ subdomainMatch(host(i), target)}
        from == IF best # {} THEN best ELSE hits
    IN  IF target = <<>> \/ hits = {} THEN NoMatch
        ELSE LET i == CHOOSE k \in from : \A m \in from : k <= m
             IN  [found |-> TRUE, link |-> ItemLink(items[i]),
                  title |-> items[i].title, position |-> items[i].position]

\* findFirstDomainMatch(items, domain); found = FALSE stands for null
findFirstDomainMatch(items, domain) ==
    LET target == normalizeDomain(domain)
        hits == {i \in 1..Len(items) : ItemMatches(items[i], target)}
    IN  IF target = <<>> \/ hits = {} THEN NoMatch
        ELSE LET i == CHOOSE k \in hits : \A m \in hits : k <= m
             IN  [found |-> TRUE, link |-> ItemLink(items[i]),
                  title |-> items[i].title, position |-> items[i].position]

(***************************************************************************)
(* Provider responses (src/providers).                                     *)
(***************************************************************************)
\* variant of SearchNormalizeResults: any page with items announces another
SearchNormalizeResults_NonEmpty(organic, page) ==
    LET items == [i \in 1..Len(organic) |->
                    [title |-> organic[i].title, link |-> organic[i].url,
                     position |-> (page * PageSize) + (i - 1) + 1,
                     page |-> page + 1, error |-> Null]]
    IN  [items |-> items, page |-> page + 1,
         hasMorePages |-> (Len(items) > 0), error |-> Null]

\* SerperSearchProvider.normalizeResults(data, query, page); organic is
\* data.organic || []
SearchNormalizeResults(organic, page) ==
    LET items == [i \in 1..Len(organic) |->
                    [title |-> organic[i].title, link |-> organic[i].url,
                     position |-> (page * PageSize) + (i - 1) + 1,
                     page |-> page + 1, error |-> Null]]
    IN  [items |-> items, page |-> page + 1,
         hasMorePages |-> (Len(items) = PageSize), error |-> Null]

\* variant of MapsNormalizeResults: the website is the item's link as well
MapsNormalizeResults_WithLink(places, page) ==
    LET items == [i \in 1..Len(places) |->
                    [position |-> (page * PageSize) + (i - 1) + 1,
                     title |-> places[i].title, website |-> places[i].url,
                     link |-> places[i].url,
                     page |-> page + 1, error |-> Null]]
    IN  [items |-> items, page |-> page + 1,
         hasMorePages |-> (Len(items) > 0), error |-> Null]

\* SerperMapsProvider.normalizeResults(data, query, page); places is
\* data.places || []
MapsNormalizeResults(places, page) ==
    LET items == [i \in 1..Len(places) |->
                    [position |-> (page * PageSize) + (i - 1) + 1,
                     title |-> places[i].title, website |-> places[i].url,
                     page |-> page + 1, error |-> Null]]
    IN  [items |-> items, page |-> page + 1,
         hasMorePages |-> (Len(items) > 0), error |-> Null]

\* variant of createErrorResult: the error page claims more pages
createErrorResult_More(page, error) ==
    [items |-> <<[title |-> "", link |-> <<>>,
                  position |-> (page * PageSize) + 1,
                  page |-> page + 1, error |-> error]>>,
     page |-> page + 1, hasMorePages |-> TRUE, error |-> error]

\* BaseSearchProvider.createErrorResult(query, page, error)
createErrorResult(page, error) ==
    [items |-> <<[title |-> "", link |-> <<>>,
                  position |-> (page * PageSize) + 1,
                  page |-> page + 1, error |-> error]>>,
     page |-> page + 1, hasMorePages |-> FALSE, error |-> error]

\* the message of the Error thrown by search() when all attempts failed
SearchFailedMessage(page, lastError) ==
    "Failed to fetch page " \o ToString(page) \o " after "
        \o ToString(maxRetries) \o " attempts. Last error: " \o lastError

(***************************************************************************)
(* Output records (src/main.js).  A file is its kind (the infix of its     *)
(* name, "page" or "match") and the data written into it.                  *)
(***************************************************************************)
\* variant of saveResultsToFile: only the first item of the page is written
saveResultsToFile_FirstItem(items, query, page) ==
    [kind |-> "page",
     data |-> [query |-> query, page |-> page, items |-> SubSeq(items, 1, 1)]]

\* saveResultsToFile(items, query, page, outputDir)
saveResultsToFile(items, query, page) ==
    [kind |-> "page",
     data |-> [query |-> query, page |-> page, items |-> items]]

\* saveDomainNoMatchSummary(query, domain, outputDir, reachedMaxResults, maxResults)
saveDomainNoMatchSummary(query, domain, reachedMaxResults, maxRes) ==
    LET rankValue == IF reachedMaxResults
                     THEN JsString(">" \o ToString(maxRes))
                     ELSE JsNull
    IN  [kind |-> "match",
         data |-> [keyword |-> query, domain |-> domain, link |-> NullText,
                   title |-> Null, rank |-> rankValue]]

\* saveDomainMatchSummary(query, domain, match, outputDir, hasReachedMaxResults, maxResults)
saveDomainMatchSummary(query, domain, match, hasReachedMaxResults, maxRes) ==
    LET formattedRank == IF hasReachedMaxResults
                         THEN JsString(">100")
                         ELSE JsNumber(match.position)
    IN  [kind |-> "match",
         data |-> [keyword |-> query, domain |-> domain, link |-> match.link,
                   title |-> match.title, rank |-> formattedRank]]

(***************************************************************************)
(* Inputs of the model: the configuration and what the API answers.        *)
(***************************************************************************)
Modes == {"search", "maps"}

\* input.domain: absent, or a domain the format validation accepts
NoDomain == <<>>
DomainInputs == {NoDomain, <<"w", "w", "w", ".", "E", "x", ".", "c", "o">>}

\* input.maxResults (0 = unlimited)
MaxResultsInputs == {0, 5, 30}

\* input.queries
queries == [i \in 1..NumQueries |-> "q" \o ToString(i)]

LinkOther == <<Scheme, "n", "o", ".", "n", "e", "t", "/">>
LinkSub == <<Scheme, "s", ".", "e", "x", ".", "c", "o", "/", "x">>
LinkExact == <<Scheme, "W", "W", "W", ".", "e", "x", ".", "c", "o">>

\* one entry of data.organic / data.places
RawItem(i, hits) ==
    IF hits /\ i = 2 THEN [title |-> "Sub", url |-> LinkSub]
    ELSE IF hits /\ i = 5 THEN [title |-> "Exact", url |-> LinkExact]
    ELSE [title |-> "Other", url |-> LinkOther]

BatchSizes == {0, 3, PageSize}

\* the bodies a successful HTTP attempt may carry
Batches == {[i \in 1..n |-> RawItem(i, hits)] : n \in BatchSizes, hits \in BOOLEAN}

\* TRUE iff no entry of the body links to the target's site
Plain(data) == \A i \in 1..Len(data) : data[i].url = LinkOther

\* the messages a failed HTTP attempt may carry
HttpErrors == {"HTTP 500", "fetch failed"}

\* the message of a persistence call that throws
IoErrors == {"ENOSPC"}

(***************************************************************************)
(* State.                                                                  *)
(***************************************************************************)
VARIABLES
    input,           \* the resolved input: mode, domain, maxResults
    pc,              \* where the main module is suspended
    queryIndex,      \* loop variable of the query loop
    totalResults,    \* per-query running item total
    pageCount,       \* per-query number of consumed pages
    domainFound,     \* per-query match flag
    actorState,      \* processedQueries, currentQueryIndex, totalResults
    files,           \* the files written to outputDir, in order
    page,            \* paginator: page index
    hasMoreResults,  \* paginator: loop flag
    result,          \* the page the paginator yielded last
    attempt,         \* search(): attempt number of the HTTP call in flight
    lastError,       \* search(): message of the last failed attempt
    thrown,          \* message of the error on its way to the catch block
    fetchFailed,     \* history: a page call of this query failed terminally
    delayMs,         \* search(): length of the delay in progress, 0 if none
    failures,        \* history: messages of the failed attempts of the page
                     \* call in flight, in order
    call,            \* the function applied in isolation, its input and output
    env,             \* what outlives the process: whether the Apify SDK is
                     \* there, PROVIDER_KEY, the stored ACTOR_STATE, and the
                     \* number of restarts so far
    attemptsSent     \* history: HTTP attempts sent for this query so far

vars == <<input, pc, queryIndex, totalResults, pageCount, domainFound,
          actorState, files, page, hasMoreResults, result, attempt,
          lastError, thrown, fetchFailed, delayMs, failures, call, env,
          attemptsSent>>

\* the main module runs: no function is applied in isolation
NoCall == [fn |-> "main"]

NoResult == [items |-> <<>>, page |-> 0, hasMorePages |-> FALSE, error |-> Null]

\* an optional value that is not there, and one that is
Missing == [set |-> FALSE, value |-> <<>>]
Given(v) == [set |-> TRUE, value |-> v]

\* the actorState a process starts with
InitialActorState ==
    [processedQueries |-> <<>>, currentQueryIndex |-> 0, totalResults |-> 0,
     migrationCount |-> 0]

\* no ACTOR_STATE in the key-value store
NoSavedState == [set |-> FALSE, value |-> InitialActorState]

\* a first run on the platform, with the key given in the input
OnPlatform ==
    [actor |-> TRUE, PROVIDER_KEY |-> Null, ACTOR_STATE |-> NoSavedState,
     restarts |-> 0]

maxResults == input.maxResults
isUnlimited == maxResults = 0
DomainMode == input.domain # NoDomain
\* input.queries || []
inputQueries == IF input.queries.set THEN input.queries.value ELSE <<>>

query == inputQueries[queryIndex + 1]

Init ==
    /\ input \in [mode : Modes, domain : DomainInputs,
                   maxResults : MaxResultsInputs, provider : {"serper"},
                   providerKey : {"key"}, queries : {Given(queries)},
                   domains : {<<>>}]
    /\ pc = "loop"
    /\ queryIndex = 0
    /\ totalResults = 0
    /\ pageCount = 0
    /\ domainFound = FALSE
    /\ actorState = InitialActorState
    /\ env = OnPlatform
    /\ attemptsSent = 0
    /\ files = <<>>
    /\ page = 0
    /\ hasMoreResults = FALSE
    /\ result = NoResult
    /\ attempt = 0
    /\ lastError = Null
    /\ thrown = Null
    /\ fetchFailed = FALSE
    /\ delayMs = 0
    /\ failures = <<>>
    /\ call = NoCall

(***************************************************************************)
(* The paginator and the page call (src/providers).                        *)
(***************************************************************************)
\* !v for a null or string v
Truthy(v) == v # Null /\ v # ""

\* input.mode || 'search'
mode == IF Truthy(input.mode) THEN input.mode ELSE "search"

\* input.provider || 'serper'
providerName == IF Truthy(input.provider) THEN input.provider ELSE "serper"

\* ProviderFactory.providers after registerDefaultProviders()
providers ==
    [name \in {"serper-search", "serper-maps"} |->
        IF name = "serper-search" THEN "SerperSearchProvider"
        ELSE "SerperMapsProvider"]

\* variant of createProvider: an unregistered name gets the search provider
createProvider_Fallback(name) ==
    IF name \in DOMAIN providers
    THEN [class |-> providers[name], error |-> Null]
    ELSE [class |-> "SerperSearchProvider", error |-> Null]

\* ProviderFactory.createProvider(providerName, config): the class of the
\* instance returned, or the message of the Error thrown
createProvider(name) ==
    IF name \in DOMAIN providers
    THEN [class |-> providers[name], error |-> Null]
    ELSE [class |-> Null,
          error |-> "Provider \"" \o name \o "\" not found"]

\* ProviderFactory.createProviderByMode(mode, provider, config)
createProviderByMode(m, p) == createProvider(p \o "-" \o m)

\* the provider of the run
provider == createProviderByMode(mode, providerName)

\* normalizeResults of the provider the factory built
normalizeResults(data, p) ==
    IF provider.class = "SerperSearchProvider"
    THEN SearchNormalizeResults(data, p)
    ELSE MapsNormalizeResults(data, p)

\* variant of ContinueAfter: every yielded page is followed by another call
ContinueAfter_Always(results) == TRUE

\* the paginator's continuation flag after a yielded page:
\* results.hasMorePages || false (search), results.items.length > 0 (maps)
ContinueAfter(results) ==
    IF provider.class = "SerperSearchProvider" THEN results.hasMorePages
    ELSE Len(results.items) > 0

\* the page number search() puts in the request body for page index p
RequestPage(p) == p + 1

\* query loop, line 121: the loop takes the next query, the for-await asks the
\* paginator for its first page and search() sends HTTP attempt 1 of page 0
StartQuery ==
    /\ pc = "loop"
    /\ queryIndex < Len(inputQueries)
    /\ actorState' = [actorState EXCEPT !.currentQueryIndex = queryIndex]
    /\ totalResults' = 0
    /\ pageCount' = 0
    /\ domainFound' = FALSE
    /\ page' = 0
    /\ hasMoreResults' = TRUE
    /\ attempt' = 1
    /\ lastError' = Null
    /\ pc' = "fetch"
    /\ fetchFailed' = FALSE
    /\ attemptsSent' = 1
    /\ UNCHANGED <<call, delayMs, failures, input, queryIndex, files, result,
                   thrown, env>>

\* the HTTP attempt in flight answers with a body: search() returns the
\* normalized page (its locals attempt and lastError are gone); the paginator
\* ends on an empty page and yields any other
FetchOk(data) ==
    /\ pc = "fetch"
    \* the API has MaxPages pages of results for a query, numbered from 1
    /\ RequestPage(page) <= MaxPages \/ data = <<>>
    \* bodies with links of the target's site are explored only when a domain
    \* is configured: without one the program never reads a link
    /\ DomainMode \/ Plain(data)
    /\ LET results == normalizeResults(data, page)
       IN  IF Len(results.items) = 0
           THEN /\ hasMoreResults' = FALSE
                /\ page' = 0
                /\ result' = NoResult
                /\ pc' = "finish"
           ELSE /\ hasMoreResults' = hasMoreResults
                /\ page' = page
                /\ result' = results
                /\ pc' = "body"
    /\ attempt' = 0
    /\ lastError' = Null
    /\ failures' = <<>>
    /\ UNCHANGED <<call, delayMs, input, queryIndex, totalResults, pageCount,
                   domainFound, actorState, files, thrown, fetchFailed, env,
                   attemptsSent>>

\* variant of BackoffDelay: the same delay after every failed attempt
BackoffDelay_Constant(k) == retryDelay

\* the delay search() awaits after failed attempt number k
BackoffDelay(k) == retryDelay * k

\* variant of KeptError: the error of the first failed attempt is kept
KeptError_First(old, e) == IF old = Null THEN e ELSE old

\* lastError = error
KeptError(old, e) == e

\* the HTTP attempt in flight fails: search() keeps the error, and either
\* waits before the next attempt or leaves its loop
AttemptFails(e) ==
    /\ pc = "fetch"
    /\ lastError' = KeptError(lastError, e)
    /\ IF attempt < maxRetries
       THEN /\ delayMs' = BackoffDelay(attempt)
            /\ pc' = "backoff"
       ELSE /\ delayMs' = 0
            /\ pc' = "failed"
    /\ failures' = Append(failures, e)
    /\ UNCHANGED <<call, input, queryIndex, totalResults, pageCount,
                   domainFound, actorState, files, page, hasMoreResults,
                   result, attempt, thrown, fetchFailed, env, attemptsSent>>

\* the delay is over: search() sends the next attempt
Backoff ==
    /\ pc = "backoff"
    /\ attempt' = attempt + 1
    /\ delayMs' = 0
    /\ pc' = "fetch"
    /\ attemptsSent' = attemptsSent + 1
    /\ UNCHANGED <<call, failures, input, queryIndex, totalResults, pageCount,
                   domainFound, actorState, files, page, hasMoreResults,
                   result, lastError, thrown, fetchFailed, env>>

\* all attempts failed, search provider: search() throws and the
\* paginator's catch yields one error page and clears its flag
SearchExhausted ==
    /\ pc = "failed"
    /\ provider.class = "SerperSearchProvider"
    /\ result' = createErrorResult(page, SearchFailedMessage(page, lastError))
    /\ hasMoreResults' = FALSE
    /\ attempt' = 0
    /\ lastError' = Null
    /\ pc' = "body"
    /\ fetchFailed' = TRUE
    /\ failures' = <<>>
    /\ UNCHANGED <<call, delayMs, input, queryIndex, totalResults, pageCount,
                   domainFound, actorState, files, page, thrown, env,
                   attemptsSent>>

\* variant of MapsExhausted: the catch yields an error page, as the search
\* provider's does
MapsExhausted_ErrorPage ==
    /\ pc = "failed"
    /\ provider.class = "SerperMapsProvider"
    /\ result' = createErrorResult(page, SearchFailedMessage(page, lastError))
    /\ hasMoreResults' = FALSE
    /\ attempt' = 0
    /\ lastError' = Null
    /\ pc' = "body"
    /\ fetchFailed' = TRUE
    /\ failures' = <<>>
    /\ UNCHANGED <<call, delayMs, input, queryIndex, totalResults, pageCount,
                   domainFound, actorState, files, page, thrown, env,
                   attemptsSent>>

\* all attempts failed, maps provider: search() throws and the
\* paginator's catch ends the sequence
MapsExhausted ==
    /\ pc = "failed"
    /\ provider.class = "SerperMapsProvider"
    /\ result' = NoResult
    /\ hasMoreResults' = FALSE
    /\ page' = 0
    /\ attempt' = 0
    /\ lastError' = Null
    /\ pc' = "finish"
    /\ fetchFailed' = TRUE
    /\ failures' = <<>>
    /\ UNCHANGED <<call, delayMs, input, queryIndex, totalResults, pageCount,
                   domainFound, actorState, files, thrown, env, attemptsSent>>

(***************************************************************************)
(* The query loop (src/main.js).  A paginator that has ended, or that a    *)
(* break has closed, keeps no state: page, hasMoreResults and result are   *)
(* back at their initial values from then on, as are the query's locals    *)
(* once the loop body is left.                                             *)
(***************************************************************************)
\* if (Actor) await Actor.setValue('ACTOR_STATE', state)
SavedEnv(state) ==
    IF env.actor THEN [env EXCEPT !.ACTOR_STATE = Given(state)] ELSE env

\* if (Actor) await Actor.setValue('ACTOR_STATE', null)
ClearedEnv ==
    IF env.actor THEN [env EXCEPT !.ACTOR_STATE = NoSavedState] ELSE env

\* variants of hasReachedMaxResults: a strict comparison, and the limit
\* compared without looking at isUnlimited
hasReachedMaxResults_Strict(total) == ~isUnlimited /\ total > maxResults

hasReachedMaxResults_NoUnlimited(total) == total >= maxResults

\* !isUnlimited && totalResults >= maxResults  (lines 148 and 163)
hasReachedMaxResults(total) == ~isUnlimited /\ total >= maxResults

\* variants of reachedMaxResults with a plausible slip each: a strict
\* comparison, the limit test dropped, the zero-results case dropped
reachedMaxResults_Strict(total) ==
    ~isUnlimited /\ (total > maxResults \/ total = 0)

reachedMaxResults_Any(total) == ~isUnlimited

reachedMaxResults_NoZero(total) == ~isUnlimited /\ total >= maxResults

\* !isUnlimited && (totalResults >= maxResults || totalResults === 0)
reachedMaxResults(total) ==
    ~isUnlimited /\ (total >= maxResults \/ total = 0)

\* variant of Breaks without the break of the match branch
Breaks_BudgetOnly(found, total) == hasReachedMaxResults(total)

\* TRUE iff the loop body breaks out of the for-await on this page
Breaks(found, total) == found \/ hasReachedMaxResults(total)

\* variant of BodyFiles: the loop body moves on without persisting the page
BodyFiles_NoWrite(match, total) == files

\* outputDir after the loop body ran on the yielded page: the match summary
\* in domain mode, nothing on a page without a match, the page file otherwise
BodyFiles(match, total) ==
    IF DomainMode
    THEN IF match.found
         THEN Append(files,
                 saveDomainMatchSummary(query, input.domain, match,
                     hasReachedMaxResults(total), maxResults))
         ELSE files
    ELSE Append(files, saveResultsToFile(result.items, query, result.page))

\* variants of FinalFiles: no not-found summary at all, and one written
\* without looking at domainFound
FinalFiles_Skip(total) == files

FinalFiles_Always(total) ==
    IF DomainMode
    THEN Append(files,
            saveDomainNoMatchSummary(query, input.domain,
                reachedMaxResults(total), maxResults))
    ELSE files

\* outputDir after the code that follows the for-await loop
FinalFiles(total) ==
    IF DomainMode /\ ~domainFound
    THEN Append(files,
            saveDomainNoMatchSummary(query, input.domain,
                reachedMaxResults(total), maxResults))
    ELSE files

\* variant of CatchFiles: the catch block only logs
CatchFiles_Skip(message) == files

\* outputDir after the catch block handled an error with this message
CatchFiles(message) ==
    IF DomainMode
    THEN Append(files,
            saveDomainNoMatchSummary(query, input.domain, TRUE, maxResults))
    ELSE Append(files,
            saveResultsToFile(
                <<[title |-> "", link |-> <<>>, position |-> 0, page |-> 0,
                   error |-> message]>>, query, 0))

\* the body of the for-await loop on the yielded page, up to the break or to
\* the delay between pages
ProcessPage ==
    /\ pc = "body"
    /\ LET total == totalResults + Len(result.items)
           match == findFirstDomainMatch(result.items, input.domain)
           found == DomainMode /\ match.found
       IN  /\ pageCount' = pageCount + 1
           /\ totalResults' = total
           /\ files' = BodyFiles(match, total)
           /\ domainFound' = (domainFound \/ found)
           /\ IF Breaks(found, total)
              THEN /\ pc' = "finish"
                   /\ page' = 0
                   /\ hasMoreResults' = FALSE
                   /\ result' = NoResult
              ELSE /\ pc' = "pace"
                   /\ page' = page
                   /\ hasMoreResults' = hasMoreResults
                   /\ result' = result
    /\ UNCHANGED <<call, delayMs, failures, input, queryIndex, actorState,
                   attempt, lastError, thrown, fetchFailed, env,
                   attemptsSent>>

\* variant of NextPage: the paginator resumes without advancing its index
NextPage_SamePage ==
    /\ pc = "pace"
    /\ LET more == IF result.error = Null THEN ContinueAfter(result) ELSE FALSE
       IN  IF more
           THEN /\ hasMoreResults' = TRUE
                /\ page' = page
                /\ attempt' = 1
                /\ attemptsSent' = attemptsSent + 1
                /\ result' = result
                /\ pc' = "fetch"
           ELSE /\ hasMoreResults' = FALSE
                /\ page' = 0
                /\ attempt' = 0
                /\ attemptsSent' = attemptsSent
                /\ result' = NoResult
                /\ pc' = "finish"
    /\ UNCHANGED <<call, delayMs, failures, input, queryIndex, totalResults,
                   pageCount, domainFound, actorState, files, lastError,
                   thrown, fetchFailed, env>>

\* the delay between pages is over: the paginator resumes after its yield
\* (result.error tells the yield of the catch from the yield of the try),
\* and either search() sends attempt 1 of the next page or the sequence ends
NextPage ==
    /\ pc = "pace"
    /\ LET more == IF result.error = Null THEN ContinueAfter(result) ELSE FALSE
       IN  IF more
           THEN /\ hasMoreResults' = TRUE
                /\ page' = page + 1
                /\ attempt' = 1
                /\ attemptsSent' = attemptsSent + 1
                /\ result' = result
                /\ pc' = "fetch"
           ELSE /\ hasMoreResults' = FALSE
                /\ page' = 0
                /\ attempt' = 0
                /\ attemptsSent' = attemptsSent
                /\ result' = NoResult
                /\ pc' = "finish"
    /\ UNCHANGED <<call, delayMs, failures, input, queryIndex, totalResults,
                   pageCount, domainFound, actorState, files, lastError,
                   thrown, fetchFailed, env>>

\* after the for-await loop: the not-found summary of domain mode, the
\* completion entry, the state totals, and on to the next query
CompleteQuery ==
    /\ pc = "finish"
    /\ files' = FinalFiles(totalResults)
    /\ actorState' = [actorState EXCEPT
            !.processedQueries = Append(@,
                [query |-> query, totalResults |-> totalResults,
                 pageCount |-> pageCount]),
            !.totalResults = @ + totalResults]
    /\ queryIndex' = queryIndex + 1
    /\ totalResults' = 0
    /\ pageCount' = 0
    /\ domainFound' = FALSE
    /\ fetchFailed' = FALSE
    /\ pc' = "loop"
    /\ env' = SavedEnv(actorState')
    /\ attemptsSent' = 0
    /\ UNCHANGED <<call, delayMs, failures, input, page, hasMoreResults,
                   result, attempt, lastError, thrown>>

\* a persistence call of the loop body (the page file, the match summary)
\* throws before anything is written: the for-await is left, which closes
\* the paginator, and control passes to the catch block
SaveThrows(e) ==
    /\ pc = "body"
    /\ ~DomainMode \/ findFirstDomainMatch(result.items, input.domain).found
    /\ pageCount' = pageCount + 1
    /\ totalResults' = totalResults + Len(result.items)
    /\ thrown' = e
    /\ page' = 0
    /\ hasMoreResults' = FALSE
    /\ result' = NoResult
    /\ pc' = "catch"
    /\ UNCHANGED <<call, delayMs, failures, input, queryIndex, domainFound,
                   actorState, files, attempt, lastError, fetchFailed, env,
                   attemptsSent>>

\* the not-found summary written after the loop throws before anything is
\* written
SummaryThrows(e) ==
    /\ pc = "finish"
    /\ DomainMode /\ ~domainFound
    /\ thrown' = e
    /\ pc' = "catch"
    /\ UNCHANGED <<call, delayMs, failures, input, queryIndex, totalResults,
                   pageCount, domainFound, actorState, files, page,
                   hasMoreResults, result, attempt, lastError, fetchFailed,
                   env, attemptsSent>>

\* variant of CatchError: the items counted before the error are added to
\* the total of the run
CatchError_CountsItems ==
    /\ pc = "catch"
    /\ files' = CatchFiles(thrown)
    /\ actorState' = [actorState EXCEPT
            !.processedQueries = Append(@, [query |-> query, error |-> thrown]),
            !.totalResults = @ + totalResults]
    /\ queryIndex' = queryIndex + 1
    /\ totalResults' = 0
    /\ pageCount' = 0
    /\ domainFound' = FALSE
    /\ fetchFailed' = FALSE
    /\ thrown' = Null
    /\ pc' = "loop"
    /\ env' = SavedEnv(actorState')
    /\ attemptsSent' = 0
    /\ UNCHANGED <<call, delayMs, failures, input, page, hasMoreResults,
                   result, attempt, lastError>>

\* variant of CatchError: the completion entry is pushed as well
CatchError_TwoEntries ==
    /\ pc = "catch"
    /\ files' = CatchFiles(thrown)
    /\ actorState' = [actorState EXCEPT
            !.processedQueries = @ \o
                <<[query |-> query, error |-> thrown],
                  [query |-> query, totalResults |-> totalResults,
                   pageCount |-> pageCount]>>]
    /\ queryIndex' = queryIndex + 1
    /\ totalResults' = 0
    /\ pageCount' = 0
    /\ domainFound' = FALSE
    /\ fetchFailed' = FALSE
    /\ thrown' = Null
    /\ pc' = "loop"
    /\ env' = SavedEnv(actorState')
    /\ attemptsSent' = 0
    /\ UNCHANGED <<call, delayMs, failures, input, page, hasMoreResults,
                   result, attempt, lastError>>

\* the catch block of the query loop: the failure record, the error entry,
\* and on to the next query
CatchError ==
    /\ pc = "catch"
    /\ files' = CatchFiles(thrown)
    /\ actorState' = [actorState EXCEPT
            !.processedQueries = Append(@, [query |-> query, error |-> thrown])]
    /\ queryIndex' = queryIndex + 1
    /\ totalResults' = 0
    /\ pageCount' = 0
    /\ domainFound' = FALSE
    /\ fetchFailed' = FALSE
    /\ thrown' = Null
    /\ pc' = "loop"
    /\ env' = SavedEnv(actorState')
    /\ attemptsSent' = 0
    /\ UNCHANGED <<call, delayMs, failures, input, page, hasMoreResults,
                   result, attempt, lastError>>

\* the query loop is over
Finish ==
    /\ pc = "loop"
    /\ queryIndex >= Len(inputQueries)
    /\ pc' = "done"
    /\ env' = ClearedEnv
    /\ UNCHANGED <<call, delayMs, failures, input, queryIndex, totalResults,
                   pageCount, domainFound, actorState, files, page,
                   hasMoreResults, result, attempt, lastError, thrown,
                   fetchFailed, attemptsSent>>

Next ==
    \/ StartQuery
    \/ \E data \in Batches : FetchOk(data)
    \/ \E e \in HttpErrors : AttemptFails(e)
    \/ Backoff
    \/ SearchExhausted
    \/ MapsExhausted
    \/ ProcessPage
    \/ NextPage
    \/ CompleteQuery
    \/ Finish

Spec == Init /\ [][Next]_vars

\* the program with persistence calls inside the try block that may throw
NextIO ==
    \/ Next
    \/ \E e \in IoErrors : SaveThrows(e)
    \/ \E e \in IoErrors : SummaryThrows(e)
    \/ CatchError

SpecIO == Init /\ [][NextIO]_vars

(***************************************************************************)
(* The matcher on its own: findFirstDomainMatch as the loop body calls it, *)
(* on one page and one configured domain, over links and domains of every  *)
(* kind the tiers tell apart.                                              *)
(***************************************************************************)
DomainExampleCom == <<"e", "x", "a", "m", "p", "l", "e", ".", "c", "o", "m">>
DomainExample == <<"e", "x", "a", "m", "p", "l", "e">>
DomainWwwExampleCom == <<"w", "w", "w", ".", "E", "x", "a", "m", "p", "l", "e", ".",
      "c", "o", "m">>

\* input.domain
MatchDomains == {DomainExampleCom, DomainExample, DomainWwwExampleCom}

LinkExampleCom == <<Scheme, "W", "W", "W", ".", "E", "x", "a", "m", "p", "l",
      "e", ".", "c", "o", "m", "/">>
LinkBlogExampleCom == <<Scheme, "b", "l", "o", "g", ".", "e", "x", "a", "m", "p",
      "l", "e", ".", "c", "o", "m", "/", "a">>
LinkMyExampleShop == <<Scheme, "m", "y", "-", "e", "x", "a", "m", "p", "l", "e",
      "-", "s", "h", "o", "p", ".", "c", "o", "m">>
LinkOtherExampleNet == <<Scheme, "o", "t", "h", "e", "r", "e", "x", "a", "m", "p",
      "l", "e", ".", "n", "e", "t", "/">>
LinkComExampleOrg == <<Scheme, "c", "o", "m", ".", "e", "x", "a", "m", "p", "l",
      "e", ".", "o", "r", "g", "/">>
\* a link new URL() rejects
LinkNoScheme == <<"e", "x", "a", "m", "p", "l", "e", ".", "c", "o", "m">>

MatchLinks == <<LinkExampleCom, LinkBlogExampleCom, LinkMyExampleShop,
                LinkOtherExampleNet, LinkComExampleOrg, LinkNoScheme>>

\* the entries of data.organic / data.places a batch is drawn from
MatchRawItems == {[title |-> "t" \o ToString(k), url |-> MatchLinks[k]] :
                    k \in 1..Len(MatchLinks)}

MatchBatches == UNION {[1..n -> MatchRawItems] : n \in 1..MaxBatch}

\* the loop body is about to call the matcher on the page it was handed
InitMatch ==
    /\ input \in [mode : Modes, domain : MatchDomains, maxResults : {0},
                   provider : {"serper"}, providerKey : {"key"}, queries : {Given(queries)},
                   domains : {<<>>}]
    /\ pc = "body"
    /\ queryIndex = 0
    /\ totalResults = 0
    /\ pageCount = 0
    /\ domainFound = FALSE
    /\ actorState = InitialActorState
    /\ env = OnPlatform
    /\ attemptsSent = 0
    /\ files = <<>>
    /\ page = 0
    /\ hasMoreResults = TRUE
    /\ result \in {normalizeResults(data, 0) : data \in MatchBatches}
    /\ attempt = 0
    /\ lastError = Null
    /\ thrown = Null
    /\ fetchFailed = FALSE
    /\ delayMs = 0
    /\ failures = <<>>
    /\ call = [fn |-> "findFirstDomainMatch", returned |-> FALSE,
               ret |-> NoMatch]

\* const match = findFirstDomainMatch(result.items, input.domain)
CallFindFirstDomainMatch ==
    /\ call.fn = "findFirstDomainMatch"
    /\ ~call.returned
    /\ call' = [call EXCEPT
            !.returned = TRUE,
            !.ret = findFirstDomainMatch(result.items, input.domain)]
    /\ UNCHANGED <<delayMs, failures, input, pc, queryIndex, totalResults,
                   pageCount, domainFound, actorState, files, page,
                   hasMoreResults, result, attempt, lastError, thrown,
                   fetchFailed, env, attemptsSent>>

SpecMatch == InitMatch /\ [][CallFindFirstDomainMatch]_vars

(***************************************************************************)
(* The matcher on its own, on any page it can be handed (items with an     *)
(* empty link, the error page of a failed call) and with or without a      *)
(* target.                                                                 *)
(***************************************************************************)
AnyRawItems ==
    MatchRawItems \cup {[title |-> "t0", url |-> <<>>]}

AnyBatches == UNION {[1..n -> AnyRawItems] : n \in 1..MaxBatch}

AnyPages ==
    {normalizeResults(data, 0) : data \in AnyBatches}
        \cup {createErrorResult(0, SearchFailedMessage(0, "HTTP 500"))}

InitMatchAny ==
    /\ input \in [mode : Modes, domain : MatchDomains \cup {NoDomain},
                   maxResults : {0}, provider : {"serper"},
                   providerKey : {"key"}, queries : {Given(queries)},
                   domains : {<<>>}]
    /\ pc = "body"
    /\ queryIndex = 0
    /\ totalResults = 0
    /\ pageCount = 0
    /\ domainFound = FALSE
    /\ actorState = InitialActorState
    /\ env = OnPlatform
    /\ attemptsSent = 0
    /\ files = <<>>
    /\ page = 0
    /\ hasMoreResults = TRUE
    /\ result \in AnyPages
    /\ attempt = 0
    /\ lastError = Null
    /\ thrown = Null
    /\ fetchFailed = FALSE
    /\ delayMs = 0
    /\ failures = <<>>
    /\ call = [fn |-> "findFirstDomainMatch", returned |-> FALSE,
               ret |-> NoMatch]

SpecMatchAny == InitMatchAny /\ [][CallFindFirstDomainMatch]_vars

(***************************************************************************)
(* normalizeDomain on its own, over the domains the format validation of   *)
(* the main module accepts: applied to a domain, then once more to its own *)
(* result, or to the domain with 'www.' in front, or in capitals.          *)
(***************************************************************************)
UpperChar(c) ==
    CASE c = "e" -> "E"
      [] c = "x" -> "X"
      [] c = "c" -> "C"
      [] c = "o" -> "O"
      [] c = "w" -> "W"
      [] OTHER -> c

\* String.prototype.toUpperCase
toUpperCase(s) == [i \in 1..Len(s) |-> UpperChar(s[i])]

\* [a-zA-Z0-9]
AlNum == {"e", "x", "c", "o", "w", "E", "X", "C", "O", "W", "1"}

\* domainPattern.test(d):
\* /^(?:www\.)?[a-zA-Z0-9][-a-zA-Z0-9]*(?:\.[a-zA-Z0-9][-a-zA-Z0-9]*)*$/
domainPattern(d) ==
    /\ d # <<>>
    /\ \A i \in 1..Len(d) :
          \/ d[i] \in AlNum
          \/ d[i] = "-" /\ i > 1 /\ d[i - 1] # "."
          \/ d[i] = "." /\ i > 1 /\ i < Len(d) /\ d[i - 1] # "."

WwwLabels == {<<"w", "w", "w", ".">>, <<"W", "W", "W", ".">>,
              <<"W", "w", "w", ".">>}

DomainBases == {<<"e", "x", ".", "c", "o">>, <<"E", "x", ".", "C", "O">>,
                <<"e", "x">>, <<"e", "-", "x", ".", "c", "o">>,
                <<"w", "w", "w", "e", "x", ".", "c", "o">>,
                <<"-", "e", "x", ".", "c", "o">>,
                <<"e", "x", ".", ".", "c", "o">>,
                <<"e", "x", ".", "c", "o", "/">>}

RECURSIVE WwwPrefixed(_)
\* the bases with up to k www. labels in front
WwwPrefixed(k) ==
    IF k = 0 THEN DomainBases
    ELSE WwwPrefixed(k - 1)
            \cup {w \o d : w \in WwwLabels, d \in WwwPrefixed(k - 1)}

\* the values of input.domain that pass the validation
AcceptedDomains == {d \in WwwPrefixed(MaxWww) : domainPattern(d)}

InitNormalize ==
    /\ input = [mode |-> "search", domain |-> NoDomain, maxResults |-> 0,
                provider |-> "serper", providerKey |-> "key", queries |-> Given(queries),
                domains |-> <<>>]
    /\ pc = "done"
    /\ queryIndex = 0
    /\ totalResults = 0
    /\ pageCount = 0
    /\ domainFound = FALSE
    /\ actorState = InitialActorState
    /\ env = OnPlatform
    /\ attemptsSent = 0
    /\ files = <<>>
    /\ page = 0
    /\ hasMoreResults = FALSE
    /\ result = NoResult
    /\ attempt = 0
    /\ lastError = Null
    /\ thrown = Null
    /\ fetchFailed = FALSE
    /\ delayMs = 0
    /\ failures = <<>>
    /\ call \in {[fn |-> "normalizeDomain", x |-> d, stage |-> "input",
                   once |-> <<>>, ret |-> <<>>] : d \in AcceptedDomains}

\* normalizeDomain(x)
CallNormalizeDomain ==
    /\ call.fn = "normalizeDomain"
    /\ call.stage = "input"
    /\ call' = [call EXCEPT !.stage = "once",
                            !.once = normalizeDomain(call.x),
                            !.ret = normalizeDomain(call.x)]
    /\ UNCHANGED <<delayMs, failures, input, pc, queryIndex, totalResults,
                   pageCount, domainFound, actorState, files, page,
                   hasMoreResults, result, attempt, lastError, thrown,
                   fetchFailed, env, attemptsSent>>

\* normalizeDomain(normalizeDomain(x))
CallNormalizeDomainAgain ==
    /\ call.fn = "normalizeDomain"
    /\ call.stage = "once"
    /\ call' = [call EXCEPT !.stage = "again",
                            !.ret = normalizeDomain(call.once)]
    /\ UNCHANGED <<delayMs, failures, input, pc, queryIndex, totalResults,
                   pageCount, domainFound, actorState, files, page,
                   hasMoreResults, result, attempt, lastError, thrown,
                   fetchFailed, env, attemptsSent>>

\* normalizeDomain('www.' + x)
CallNormalizeDomainWww ==
    /\ call.fn = "normalizeDomain"
    /\ call.stage = "once"
    /\ call' = [call EXCEPT !.stage = "www",
                   !.ret = normalizeDomain(<<"w", "w", "w", ".">> \o call.x)]
    /\ UNCHANGED <<delayMs, failures, input, pc, queryIndex, totalResults,
                   pageCount, domainFound, actorState, files, page,
                   hasMoreResults, result, attempt, lastError, thrown,
                   fetchFailed, env, attemptsSent>>

\* normalizeDomain(x.toUpperCase())
CallNormalizeDomainUpper ==
    /\ call.fn = "normalizeDomain"
    /\ call.stage = "once"
    /\ call' = [call EXCEPT !.stage = "upper",
                            !.ret = normalizeDomain(toUpperCase(call.x))]
    /\ UNCHANGED <<delayMs, failures, input, pc, queryIndex, totalResults,
                   pageCount, domainFound, actorState, files, page,
                   hasMoreResults, result, attempt, lastError, thrown,
                   fetchFailed, env, attemptsSent>>

NextNormalize ==
    \/ CallNormalizeDomain
    \/ CallNormalizeDomainAgain
    \/ CallNormalizeDomainWww
    \/ CallNormalizeDomainUpper

SpecNormalize == InitNormalize /\ [][NextNormalize]_vars

(***************************************************************************)
(* The paginator against a provider whose answers are fixed in advance:    *)
(* the call for page index p is answered with a batch of responses[p + 1]  *)
(* items.  No attempt fails, no domain is configured and there is no       *)
(* result limit, so that every page the paginator yields is consumed and   *)
(* pageCount counts the pages yielded.                                     *)
(***************************************************************************)
ScriptSizes == {0, 3, 7, PageSize}

\* batch sizes that never grow, all positive but the last, which is 0
Scripts ==
    {s \in UNION {[1..n -> ScriptSizes] : n \in 1..(MaxPages + 1)} :
        /\ s[Len(s)] = 0
        /\ \A i \in 1..(Len(s) - 1) : s[i] > 0 /\ s[i] >= s[i + 1]}

\* the body with n entries, none of them of the target's site
ScriptBatch(n) == [i \in 1..n |-> RawItem(i, FALSE)]

InitScripted ==
    /\ input \in [mode : Modes, domain : {NoDomain}, maxResults : {0},
                   provider : {"serper"}, providerKey : {"key"}, queries : {Given(queries)},
                   domains : {<<>>}]
    /\ pc = "loop"
    /\ queryIndex = 0
    /\ totalResults = 0
    /\ pageCount = 0
    /\ domainFound = FALSE
    /\ actorState = InitialActorState
    /\ env = OnPlatform
    /\ attemptsSent = 0
    /\ files = <<>>
    /\ page = 0
    /\ hasMoreResults = FALSE
    /\ result = NoResult
    /\ attempt = 0
    /\ lastError = Null
    /\ thrown = Null
    /\ fetchFailed = FALSE
    /\ delayMs = 0
    /\ failures = <<>>
    /\ call \in {[fn |-> "getPaginatedResults", responses |-> s] :
                    s \in Scripts}

\* the HTTP attempt in flight is answered as the script says
FetchScripted ==
    /\ call.fn = "getPaginatedResults"
    /\ RequestPage(page) <= Len(call.responses)
    /\ FetchOk(ScriptBatch(call.responses[RequestPage(page)]))

NextScripted ==
    \/ StartQuery
    \/ FetchScripted
    \/ ProcessPage
    \/ NextPage
    \/ CompleteQuery
    \/ Finish

SpecScripted == InitScripted /\ [][NextScripted]_vars

(***************************************************************************)
(* The whole run on or off the platform: the start of the main module with *)
(* its checks of the configuration, the query loop against a provider      *)
(* whose calls succeed, the platform's events, and the platform stopping   *)
(* the process and starting it again.  The records written (output files,  *)
(* dataset items) and the key-value store outlive the process.             *)
(***************************************************************************)
\* input.providerKey || process.env.PROVIDER_KEY
providerKey ==
    IF Truthy(input.providerKey) THEN input.providerKey ELSE env.PROVIDER_KEY

\* variant of StartupError: only the provider key is checked
StartupError_KeyOnly ==
    IF ~Truthy(providerKey) THEN "Provider key is required"
    ELSE IF provider.error # Null THEN provider.error
    ELSE Null

\* the message of the Error the checks at the start of the main module
\* throw, Null if they pass
StartupError ==
    IF ~Truthy(providerKey) THEN "Provider key is required"
    ELSE IF provider.error # Null THEN provider.error
    ELSE IF Len(inputQueries) = 0 THEN "No queries provided"
    ELSE IF input.domain # NoDomain /\ ~domainPattern(input.domain)
         THEN "Invalid domain format"
    ELSE Null

\* the main module up to the query loop: the stored state, if any, is laid
\* over the fresh one, the configuration is checked, and the loop variable
\* starts at actorState.currentQueryIndex
Startup ==
    /\ pc = "start"
    /\ LET previousState == env.ACTOR_STATE
           loaded == IF env.actor /\ previousState.set
                     THEN previousState.value
                     ELSE actorState
       IN  /\ actorState' = loaded
           /\ IF StartupError # Null
              THEN /\ thrown' = StartupError
                   /\ queryIndex' = queryIndex
                   /\ pc' = "aborted"
              ELSE /\ thrown' = thrown
                   /\ queryIndex' = loaded.currentQueryIndex
                   /\ pc' = "loop"
    /\ UNCHANGED <<input, totalResults, pageCount, domainFound, files, page,
                   hasMoreResults, result, attempt, lastError, fetchFailed,
                   delayMs, failures, call, env, attemptsSent>>

\* the points at which the main module is suspended with its listeners set
Running ==
    {"loop", "fetch", "backoff", "failed", "body", "pace", "finish", "catch"}

\* the points at which a listener may run: those, and the end of the main
\* module, where ACTOR_STATE has been cleared and Actor.exit() is awaited
Listening == Running \cup {"done"}

\* Actor.on('persistState') and Actor.on('aborting'): the state is stored
PersistState ==
    /\ env.actor
    /\ pc \in Listening
    /\ env' = SavedEnv(actorState)
    /\ UNCHANGED <<input, pc, queryIndex, totalResults, pageCount,
                   domainFound, actorState, files, page, hasMoreResults,
                   result, attempt, lastError, thrown, fetchFailed, delayMs,
                   failures, call, attemptsSent>>

\* Actor.on('migrating'): the migration is counted and the state stored
Migrating ==
    /\ env.actor
    /\ pc \in Listening
    /\ actorState.migrationCount < MaxRestarts
    /\ actorState' = [actorState EXCEPT !.migrationCount = @ + 1]
    /\ env' = SavedEnv(actorState')
    /\ UNCHANGED <<input, pc, queryIndex, totalResults, pageCount,
                   domainFound, files, page, hasMoreResults, result, attempt,
                   lastError, thrown, fetchFailed, delayMs, failures, call,
                   attemptsSent>>

\* the platform stops the process and starts the run again with the same
\* input: the main module starts over with fresh variables
Restart ==
    /\ env.actor
    /\ pc \in Running
    /\ env.restarts < MaxRestarts
    /\ env' = [env EXCEPT !.restarts = @ + 1]
    /\ pc' = "start"
    /\ queryIndex' = 0
    /\ totalResults' = 0
    /\ pageCount' = 0
    /\ domainFound' = FALSE
    /\ actorState' = InitialActorState
    /\ page' = 0
    /\ hasMoreResults' = FALSE
    /\ result' = NoResult
    /\ attempt' = 0
    /\ lastError' = Null
    /\ thrown' = Null
    /\ fetchFailed' = FALSE
    /\ delayMs' = 0
    /\ failures' = <<>>
    /\ attemptsSent' = 0
    /\ UNCHANGED <<input, files, call>>

\* the configurations of a run: the key in the input, in the environment or
\* nowhere, the query list missing, empty or given, one target domain or
\* none, a list of target domains or none
ProviderKeyInputs == {Null, "", "key"}

QueriesInputs == {Missing, Given(<<>>), Given(queries)}

DomainsInput == <<<<"e", "x", ".", "c", "o">>, <<"n", "o", ".", "n", "e", "t">>>>

\* modes and provider names, given or not, registered or not
ModeInputs == {Null, "search", "maps", "images"}

ProviderInputs == {Null, "serper", "google"}

\* every way of giving or not giving the key and the query list, every
\* mode and provider name, and, with a valid configuration, every mode with
\* and without targets
RunInputs ==
    [mode : {"search"}, provider : {"serper"}, domain : {NoDomain},
     maxResults : {0}, providerKey : ProviderKeyInputs,
     queries : QueriesInputs, domains : {<<>>}]
    \cup
    [mode : ModeInputs, provider : ProviderInputs, domain : {NoDomain},
     maxResults : {0}, providerKey : {"key"}, queries : {Given(queries)},
     domains : {<<>>}]
    \cup
    [mode : Modes, domain : DomainInputs, maxResults : {0, 5},
     provider : {"serper"}, providerKey : {"key"}, queries : {Given(queries)},
     domains : {<<>>, DomainsInput}]

\* the answers of the provider during a run: an empty page or a short one
RunBatches == {data \in Batches : Len(data) < PageSize}

InitRun ==
    /\ input \in RunInputs
    /\ env \in [actor : BOOLEAN, PROVIDER_KEY : {Null, "envkey"},
                 ACTOR_STATE : {NoSavedState}, restarts : {0}]
    /\ pc = "start"
    /\ queryIndex = 0
    /\ totalResults = 0
    /\ pageCount = 0
    /\ domainFound = FALSE
    /\ actorState = InitialActorState
    /\ files = <<>>
    /\ page = 0
    /\ hasMoreResults = FALSE
    /\ result = NoResult
    /\ attempt = 0
    /\ lastError = Null
    /\ thrown = Null
    /\ fetchFailed = FALSE
    /\ delayMs = 0
    /\ failures = <<>>
    /\ call = NoCall
    /\ attemptsSent = 0

NextRun ==
    \/ Startup
    \/ StartQuery
    \/ \E data \in RunBatches : FetchOk(data)
    \/ ProcessPage
    \/ NextPage
    \/ CompleteQuery
    \/ Finish
    \/ PersistState
    \/ Migrating
    \/ Restart

SpecRun == InitRun /\ [][NextRun]_vars

(***************************************************************************)
(* The query loop under a small result limit, against a provider that may  *)
(* answer with pages of a single item.                                     *)
(***************************************************************************)
BudgetInputs == {2, 15}

BudgetSizes == {0, 1, PageSize}

BudgetBatches ==
    {[i \in 1..n |-> RawItem(i, hits)] : n \in BudgetSizes, hits \in BOOLEAN}

InitBudget ==
    /\ input \in [mode : Modes, domain : DomainInputs,
                   maxResults : BudgetInputs, provider : {"serper"},
                   providerKey : {"key"}, queries : {Given(queries)},
                   domains : {<<>>}]
    /\ pc = "loop"
    /\ queryIndex = 0
    /\ totalResults = 0
    /\ pageCount = 0
    /\ domainFound = FALSE
    /\ actorState = InitialActorState
    /\ env = OnPlatform
    /\ attemptsSent = 0
    /\ files = <<>>
    /\ page = 0
    /\ hasMoreResults = FALSE
    /\ result = NoResult
    /\ attempt = 0
    /\ lastError = Null
    /\ thrown = Null
    /\ fetchFailed = FALSE
    /\ delayMs = 0
    /\ failures = <<>>
    /\ call = NoCall

NextBudget ==
    \/ StartQuery
    \/ \E data \in BudgetBatches : FetchOk(data)
    \/ \E e \in HttpErrors : AttemptFails(e)
    \/ Backoff
    \/ SearchExhausted
    \/ MapsExhausted
    \/ ProcessPage
    \/ NextPage
    \/ CompleteQuery
    \/ Finish

SpecBudget == InitBudget /\ [][NextBudget]_vars

TypeOK ==
    pc \in {"start", "aborted", "loop", "fetch", "backoff", "failed", "body",
            "pace", "finish", "catch", "done"}

(***************************************************************************)
(* Vocabulary of the properties.                                           *)
(***************************************************************************)
Entries == actorState.processedQueries

\* the query a file was written for
FileQuery(f) == IF f.kind = "page" THEN f.data.query ELSE f.data.keyword

FilesOf(q) == SelectSeq(files, LAMBDA f : FileQuery(f) = q)

IsMatchSummary(f) == f.kind = "match" /\ f.data.link # NullText

IsNotFoundSummary(f) == f.kind = "match" /\ f.data.link = NullText

IsErrorEntry(e) == "error" \in DOMAIN e

\* the string '>' followed by n
Sentinel(n) == JsString(">" \o ToString(n))

\* the summary of query number i in domain mode, once it has been written
SummaryOf(i) == FilesOf(queries[i])[1]

\* TRUE iff a match summary exists for query number i
Matched(i) == \E k \in 1..Len(files) :
                 IsMatchSummary(files[k]) /\ FileQuery(files[k]) = queries[i]

\* the indices of the items of the yielded page that match the target
MatchingItems ==
    {i \in 1..Len(result.items) :
        ItemMatches(result.items[i], normalizeDomain(input.domain))}

(***************************************************************************)
(* C1.  As claimed: by the time the query loop has advanced past a query,  *)
(* at least one output record of that query has been written.              *)
(***************************************************************************)
C1_EveryQueryHasARecord ==
    \A i \in 1..queryIndex : FilesOf(queries[i]) # <<>>

\* C1, amended: a query the loop has advanced past has at least one output
\* record if a domain is configured, if the paginator yielded at least one
\* page or if the query ended in the catch block; a query without a domain
\* whose paginator yielded no page has no output record at all.
C1_RecordUnlessNoPageWithoutDomain ==
    /\ Len(Entries) = queryIndex
    /\ \A i \in 1..queryIndex :
          LET e == Entries[i]
              noPage == ~IsErrorEntry(e) /\ e.pageCount = 0
          IN  IF ~DomainMode /\ noPage
              THEN FilesOf(queries[i]) = <<>>
              ELSE FilesOf(queries[i]) # <<>>

\* without a domain, the first query ended on a terminal fetch failure of a
\* later page and the second on an I/O error, and both left records
C1_Witness ==
    /\ pc = "done"
    /\ ~DomainMode
    /\ \E k \in 1..Len(files) :
          /\ FileQuery(files[k]) = queries[1]
          /\ files[k].data.page = 2
          /\ files[k].data.items[1].error # Null
    /\ IsErrorEntry(Entries[2])
    /\ FilesOf(queries[2]) # <<>>

C3_FailureRecorded ==
    /\ Len(Entries) = queryIndex
    /\ \A i \in 1..Len(Entries) :
          /\ Entries[i].query = queries[i]
          /\ IsErrorEntry(Entries[i]) =>
                LET fs == FilesOf(queries[i])
                    f == fs[Len(fs)]
                IN  /\ fs # <<>>
                    /\ IF DomainMode
                       THEN IsNotFoundSummary(f)
                       ELSE /\ f.kind = "page"
                            /\ f.data.page = 0
                            /\ Len(f.data.items) = 1
                            /\ f.data.items[1].error = Entries[i].error
                            /\ f.data.items[1].error # Null
    /\ pc = "catch" => thrown # Null /\ queryIndex < NumQueries
    /\ pc = "done" => queryIndex = NumQueries /\ Len(Entries) = NumQueries

C5_NoCallAfterMatch ==
    \A i \in 1..NumQueries :
        (Matched(i) /\ pc \in {"fetch", "backoff", "failed", "body", "pace"})
            => queryIndex + 1 > i

\* the first query matched on a full first page with no result limit (a page
\* after which the paginator would have gone on), and the call now in flight
\* is the first of the second query
C5_Witness ==
    /\ pc = "fetch"
    /\ queryIndex = 1
    /\ page = 0
    /\ isUnlimited
    /\ input.mode = "search"
    /\ Matched(1)
    /\ Entries[1].totalResults = PageSize

(***************************************************************************)
(* C6.  In domain mode with maxResults = N > 0, a query that completed     *)
(* with a running total of N or more and without a match has a not-found   *)
(* summary with rank '>' followed by N.                                    *)
(***************************************************************************)
C6_ExhaustedRank ==
    (DomainMode /\ maxResults > 0) =>
        \A i \in 1..Len(Entries) :
            (~Matched(i) /\ Entries[i].totalResults >= maxResults) =>
                /\ IsNotFoundSummary(SummaryOf(i))
                /\ SummaryOf(i).data.rank = Sentinel(maxResults)

\* three full pages with N = 30 gave rank '>30'
C6_Witness ==
    /\ DomainMode
    /\ maxResults = 30
    /\ Len(Entries) >= 1
    /\ Entries[1].totalResults = 30
    /\ Entries[1].pageCount = 3
    /\ SummaryOf(1).data.rank = JsString(">30")

C9_FetchFailureRank ==
    [][(pc = "finish" /\ pc' = "loop" /\ DomainMode /\ fetchFailed
            /\ ~domainFound) =>
         LET f == files'[Len(files')]
         IN  /\ Len(files') = Len(files) + 1
             /\ IsNotFoundSummary(f)
             /\ f.data.rank = Sentinel(maxResults)]_vars

(***************************************************************************)
(* C10.  As claimed: the rank of every summary is an integer >= 1, the     *)
(* string '>' followed by maxResults, or null, and a summary with a link   *)
(* has an integer rank.                                                    *)
(***************************************************************************)
C10_RankShape ==
    \A k \in 1..Len(files) :
        files[k].kind = "match" =>
            LET rank == files[k].data.rank
            IN  /\ \/ rank.t = "number" /\ rank.n >= 1
                   \/ rank = Sentinel(maxResults)
                   \/ rank = JsNull
                /\ files[k].data.link # NullText => rank.t = "number"

(***************************************************************************)
(* C11.  With maxResults = N > 0, a page is consumed only while the        *)
(* running total is below N; the loop body counts every item of the page   *)
(* it consumes and, without a domain, writes all of them to the page file; *)
(* and the page on which the total reaches N is the last one consumed for  *)
(* the query: the loop is left and the paginator is closed.                *)
(***************************************************************************)
C11_TotalBelowLimitWhileConsuming ==
    (maxResults > 0 /\ pc \in {"fetch", "backoff", "failed", "body", "pace"})
        => totalResults < maxResults

C11_BudgetStopsAtCrossingPage ==
    /\ []C11_TotalBelowLimitWhileConsuming
    /\ [][(pc = "body" /\ maxResults > 0) =>
            /\ totalResults' = totalResults + Len(result.items)
            /\ pageCount' = pageCount + 1
            /\ ~DomainMode =>
                  /\ Len(files') = Len(files) + 1
                  /\ files'[Len(files')].kind = "page"
                  /\ files'[Len(files')].data.query = query
                  /\ files'[Len(files')].data.items = result.items
            /\ totalResults' >= maxResults =>
                  /\ pc' = "finish"
                  /\ hasMoreResults' = FALSE]_vars

\* with N = 5 and no domain, a full first page was counted and written in
\* full, and it was the only page of the query
C11_Witness ==
    /\ ~DomainMode
    /\ maxResults = 5
    /\ Len(Entries) >= 1
    /\ Entries[1].totalResults = PageSize
    /\ Entries[1].pageCount = 1
    /\ Len(FilesOf(queries[1])) = 1
    /\ Len(FilesOf(queries[1])[1].data.items) = PageSize

(***************************************************************************)
(* C12.  With maxResults = 0 the loop body leaves the for-await only on a  *)
(* page that holds a match for the configured domain; on any other page it *)
(* goes on to the delay between pages, whatever the running total is, and  *)
(* after the delay the pagination ends only because the paginator ends: on *)
(* an error page, or (search) on a page that is not full.                  *)
(***************************************************************************)
C12_UnlimitedNeverStopsOnBudget ==
    [][maxResults = 0 =>
        /\ pc = "body" =>
              IF DomainMode /\ MatchingItems # {}
              THEN pc' = "finish"
              ELSE pc' = "pace" /\ result' = result
        /\ (pc = "pace" /\ pc' = "finish") =>
              \/ result.error # Null
              \/ input.mode = "search" /\ Len(result.items) # PageSize]_vars

\* with no limit, a query consumed three full pages without a match and
\* ended when the provider had nothing more
C12_Witness ==
    /\ maxResults = 0
    /\ Len(Entries) >= 1
    /\ Entries[1].pageCount = MaxPages
    /\ Entries[1].totalResults = MaxPages * PageSize
    /\ ~Matched(1)

(***************************************************************************)
(* Vocabulary of the matcher's properties: the hostname each link of the   *)
(* model stands for, and the three tiers in the words of their             *)
(* description.                                                            *)
(***************************************************************************)
HostBlogExampleCom == <<"b", "l", "o", "g", ".", "e", "x", "a", "m", "p", "l", "e",
      ".", "c", "o", "m">>
HostMyExampleShop == <<"m", "y", "-", "e", "x", "a", "m", "p", "l", "e", "-", "s",
      "h", "o", "p", ".", "c", "o", "m">>
HostOtherExampleNet == <<"o", "t", "h", "e", "r", "e", "x", "a", "m", "p", "l", "e",
      ".", "n", "e", "t">>
HostComExampleOrg == <<"c", "o", "m", ".", "e", "x", "a", "m", "p", "l", "e", ".",
      "o", "r", "g">>

\* the hostname of an item, www. stripped and lowercased; empty for an item
\* without a link and for a link that is no URL
HostnameOf(item) ==
    IF "link" \notin DOMAIN item THEN <<>>
    ELSE CASE item.link = LinkExampleCom -> DomainExampleCom
           [] item.link = LinkBlogExampleCom -> HostBlogExampleCom
           [] item.link = LinkMyExampleShop -> HostMyExampleShop
           [] item.link = LinkOtherExampleNet -> HostOtherExampleNet
           [] item.link = LinkComExampleOrg -> HostComExampleOrg
           [] OTHER -> <<>>

\* the normalized form of a configured domain
TargetOf(domain) ==
    IF domain = DomainWwwExampleCom THEN DomainExampleCom ELSE domain

\* the dot-delimited segments of s
Segments(s) ==
    {SubSeq(s, ij[1], ij[2]) :
        ij \in {x \in (1..(Len(s) + 1)) \X (0..Len(s)) :
                  /\ x[2] >= x[1] - 1
                  /\ x[1] = 1 \/ s[x[1] - 1] = "."
                  /\ x[2] = Len(s) \/ s[x[2] + 1] = "."
                  /\ \A k \in x[1]..x[2] : s[k] # "."}}

IsSubstringOf(t, h) ==
    \E i \in 1..(Len(h) + 1) : \E j \in (i - 1)..Len(h) : SubSeq(h, i, j) = t

\* host equals target, ends with '.' + target, or every segment of target
\* is a substring of some segment of host
SatisfiesATier(host, target) ==
    \/ host = target
    \/ /\ Len(host) > Len(target)
       /\ SubSeq(host, Len(host) - Len(target), Len(host)) = <<".">> \o target
    \/ \A t \in Segments(target) : \E h \in Segments(host) : IsSubstringOf(t, h)

MatcherReturned == call.fn = "findFirstDomainMatch" /\ call.returned

(***************************************************************************)
(* C13.  findFirstDomainMatch returns the link, title and position of the  *)
(* item with the smallest index in the batch that satisfies any of the     *)
(* three tiers, whatever tiers later items satisfy, and returns no match   *)
(* exactly when no item of the batch satisfies a tier.                     *)
(***************************************************************************)
C13_FirstMatchInScanOrder ==
    MatcherReturned =>
        LET items == result.items
            target == TargetOf(input.domain)
            M == {i \in 1..Len(items) :
                    SatisfiesATier(HostnameOf(items[i]), target)}
        IN  IF M = {} THEN ~call.ret.found
            ELSE /\ call.ret.found
                 /\ \E i \in M :
                       /\ \A m \in M : i <= m
                       /\ call.ret.link = items[i].link
                       /\ call.ret.title = items[i].title
                       /\ call.ret.position = items[i].position

\* a partial match at index 1 was returned although index 2 is an exact match
C13_Witness ==
    /\ MatcherReturned
    /\ input.domain = DomainExampleCom
    /\ Len(result.items) = 2
    /\ "link" \in DOMAIN result.items[1]
    /\ result.items[1].link = LinkComExampleOrg
    /\ result.items[2].link = LinkExampleCom
    /\ call.ret.found
    /\ call.ret.position = 1
    /\ call.ret.link = LinkComExampleOrg

(***************************************************************************)
(* C14.  An item matches a normalized target exactly when its hostname     *)
(* equals the target, ends with '.' + target, or has every dot-delimited   *)
(* segment of the target as a substring of one of its own segments;        *)
(* 'example.com' and 'blog.example.com' match 'example.com',               *)
(* 'my-example-shop.com' matches 'example', and 'otherexample.net' does    *)
(* not match 'example.com'.                                                *)
(***************************************************************************)
C14_TierSemantics ==
    (MatcherReturned /\ Len(result.items) = 1) =>
        LET host == HostnameOf(result.items[1])
            target == TargetOf(input.domain)
        IN  /\ call.ret.found <=> SatisfiesATier(host, target)
            /\ (target = DomainExampleCom
                    /\ host \in {DomainExampleCom, HostBlogExampleCom})
                  => call.ret.found
            /\ (target = DomainExample /\ host = HostMyExampleShop)
                  => call.ret.found
            /\ (target = DomainExampleCom /\ host = HostOtherExampleNet)
                  => ~call.ret.found

\* 'com.example.org' matched 'example.com' by its segments alone
C14_Witness ==
    /\ MatcherReturned
    /\ Len(result.items) = 1
    /\ TargetOf(input.domain) = DomainExampleCom
    /\ HostnameOf(result.items[1]) = HostComExampleOrg
    /\ call.ret.found

(***************************************************************************)
(* C15.  As claimed: for every domain x the format validation accepts,     *)
(* normalizeDomain(normalizeDomain(x)) = normalizeDomain(x).               *)
(***************************************************************************)
C15_NormalizeIdempotent ==
    (call.fn = "normalizeDomain" /\ call.stage = "again")
        => call.ret = call.once

(***************************************************************************)
(* C16.  As claimed: for every domain d the format validation accepts,     *)
(* normalizeDomain('www.' + d) and normalizeDomain(d in capitals) equal    *)
(* normalizeDomain(d), and normalizeDomain(d) has no capital letter.       *)
(***************************************************************************)
C16_NormalizeInsensitive ==
    call.fn = "normalizeDomain" =>
        /\ call.stage \in {"www", "upper"} => call.ret = call.once
        /\ call.stage # "input" =>
              \A i \in 1..Len(call.once) :
                  call.once[i] \notin {"E", "X", "C", "O", "W"}

(***************************************************************************)
(* C17.  A page call makes at most 3 HTTP attempts, each after the         *)
(* failure of the one before; the first attempt that succeeds ends the     *)
(* call, which makes no further attempt; the call fails only when 3        *)
(* attempts in a row have failed, and the error it then throws (search     *)
(* provider: the error of the error page) carries the message of the third *)
(* failed attempt.                                                         *)
(***************************************************************************)
C17_AttemptsOfOneCall ==
    /\ pc = "fetch" => attempt \in 1..3 /\ Len(failures) = attempt - 1
    /\ pc = "backoff" => attempt \in 1..2 /\ Len(failures) = attempt
    /\ pc = "failed" =>
          /\ attempt = 3
          /\ Len(failures) = 3
          /\ lastError = failures[3]
    /\ pc \notin {"fetch", "backoff", "failed"} =>
          attempt = 0 /\ failures = <<>>

\* the text of the error a page call throws after its third failed attempt
ThrownText(p, m) ==
    "Failed to fetch page " \o ToString(p) \o " after 3 attempts. Last error: " \o m

C17_Step ==
    /\ (pc = "fetch" /\ failures' = <<>>) =>
          /\ pc' \in {"body", "finish"}
          /\ attempt' = 0
          /\ pc' = "body" => result'.error = Null /\ result'.page = page + 1
    /\ (pc = "fetch" /\ failures' # <<>>) =>
          /\ attempt' = attempt
          /\ pc' = IF attempt < 3 THEN "backoff" ELSE "failed"
    /\ pc = "backoff" => pc' = "fetch" /\ attempt' = attempt + 1
    /\ (pc = "failed" /\ input.mode = "search") =>
          result'.error = ThrownText(page, failures[3])

C17_RetryPolicy == []C17_AttemptsOfOneCall /\ [][C17_Step]_vars

\* the third attempt of the call for the second page failed with a message
\* other than that of the first two, and that message is in the error page
C17_Witness ==
    /\ pc = "body"
    /\ input.mode = "search"
    /\ fetchFailed
    /\ result.error =
          "Failed to fetch page 1 after 3 attempts. Last error: fetch failed"

(***************************************************************************)
(* C18.  Within a page call, a delay of k * 1000 ms is in progress after   *)
(* failed attempt k for k = 1 and 2 and at no other time; attempt k + 1    *)
(* starts only by the step that ends that delay; and the third failed      *)
(* attempt is followed by no delay.                                        *)
(***************************************************************************)
C18_DelayInProgress ==
    IF pc = "backoff"
    THEN /\ attempt \in {1, 2}
         /\ Len(failures) = attempt
         /\ delayMs = attempt * 1000
    ELSE delayMs = 0

C18_Step ==
    /\ (pc = "fetch" /\ failures' # <<>>) =>
          IF attempt = 3
          THEN pc' = "failed" /\ delayMs' = 0
          ELSE pc' = "backoff" /\ delayMs' = attempt * 1000
    /\ (attempt >= 1 /\ attempt' = attempt + 1) =>
          /\ pc = "backoff"
          /\ delayMs = attempt * 1000
          /\ delayMs' = 0
          /\ pc' = "fetch"

C18_LinearBackoff == []C18_DelayInProgress /\ [][C18_Step]_vars

\* the delay of 2000 ms after the second failed attempt is in progress
C18_Witness ==
    /\ pc = "backoff"
    /\ attempt = 2
    /\ Len(failures) = 2
    /\ delayMs = 2000

(***************************************************************************)
(* Vocabulary of the paginator's properties.                               *)
(***************************************************************************)
\* the number of non-empty batches of a script
NonEmptyBatches(s) == Cardinality({i \in 1..Len(s) : s[i] > 0})

\* the index of the first batch of a script that is not a full page
FirstShort(s) ==
    CHOOSE k \in 1..Len(s) : s[k] # 10 /\ \A j \in 1..(k - 1) : s[j] = 10

\* the files written for query number i are its pages 1, 2, ... in order
PagesWritten(i) ==
    LET fs == FilesOf(queries[i])
    IN  /\ Len(fs) = Entries[i].pageCount
        /\ \A k \in 1..Len(fs) :
              /\ fs[k].data.page = k
              /\ Len(fs[k].data.items) = call.responses[k]

(***************************************************************************)
(* C19.  As claimed: when the provider answers with batch sizes that never *)
(* grow and end in an empty batch, the paginator of either provider yields *)
(* as many pages as there are non-empty batches.                           *)
(***************************************************************************)
C19_YieldsEveryNonEmptyBatch ==
    call.fn = "getPaginatedResults" =>
        \A i \in 1..Len(Entries) :
            Entries[i].pageCount = NonEmptyBatches(call.responses)

\* C19, amended: against such answers the maps paginator yields as many
\* pages as there are non-empty batches; the search paginator yields the
\* batches up to and including the first one that is not a full page of 10
\* items, that one excluded if it is empty, which is every non-empty batch
\* only when no non-empty batch but the last is short.
C19_PagesYielded ==
    call.fn = "getPaginatedResults" =>
        \A i \in 1..Len(Entries) :
            LET s == call.responses
                k == FirstShort(s)
            IN  /\ PagesWritten(i)
                /\ Entries[i].pageCount =
                      IF input.mode = "maps" THEN NonEmptyBatches(s)
                      ELSE IF s[k] = 0 THEN k - 1 ELSE k

\* the search paginator stopped after the batch of 7 and never asked for
\* the batch of 3
C19_Witness ==
    /\ call.fn = "getPaginatedResults"
    /\ input.mode = "search"
    /\ call.responses = <<10, 7, 3, 0>>
    /\ Len(Entries) >= 1
    /\ Entries[1].pageCount = 2
    /\ Entries[1].totalResults = 17

(***************************************************************************)
(* C20.  When a page call of the search provider has failed for good, on   *)
(* the first page or a later one, the paginator yields an error page: one  *)
(* item, with a non-null error, hasMorePages false and the number of the   *)
(* failed page.  It is the only page yielded after the failure, and no     *)
(* attempt is made, awaited or failed for that query from then on.         *)
(***************************************************************************)
C20_NoCallAfterErrorPage ==
    (input.mode = "search" /\ fetchFailed) =>
        /\ pc \in {"body", "pace", "finish"}
        /\ pc \in {"body", "pace"} =>
              /\ result.error # Null
              /\ Len(result.items) = 1
        /\ pc = "finish" => result = NoResult

C20_Step ==
    /\ (pc = "failed" /\ input.mode = "search") =>
          /\ pc' = "body"
          /\ fetchFailed'
          /\ Len(result'.items) = 1
          /\ result'.items[1].error # Null
          /\ result'.error = result'.items[1].error
          /\ result'.hasMorePages = FALSE
          /\ result'.page = page + 1
          /\ result'.items[1].page = page + 1
    /\ (input.mode = "search" /\ fetchFailed /\ pc \in {"body", "pace"}) =>
          pc' \in {"pace", "finish"}

C20_OneErrorPageThenStop == []C20_NoCallAfterErrorPage /\ [][C20_Step]_vars

\* the call for the second page failed for good, its error page was consumed
\* and the delay between pages is in progress
C20_Witness ==
    /\ input.mode = "search"
    /\ fetchFailed
    /\ pc = "pace"
    /\ pageCount = 2
    /\ result.page = 2
    /\ result.error # Null
    /\ totalResults = PageSize + 1

(***************************************************************************)
(* C21.  When a page call of the maps provider has failed for good, the    *)
(* paginator ends: nothing is yielded for the failed page (no page is      *)
(* counted, no item added, no file written), no error is on its way to the *)
(* catch block, the pages consumed before stay counted, and no attempt is  *)
(* made, awaited or failed for that query from then on.                    *)
(***************************************************************************)
C21_EndedAfterFailure ==
    (input.mode = "maps" /\ fetchFailed) =>
        /\ pc = "finish"
        /\ thrown = Null
        /\ result = NoResult

C21_Step ==
    (pc = "failed" /\ input.mode = "maps") =>
        /\ pc' = "finish"
        /\ fetchFailed'
        /\ thrown' = Null
        /\ pageCount' = pageCount
        /\ totalResults' = totalResults
        /\ files' = files
        /\ actorState' = actorState

C21_MapsFailureEndsSilently == []C21_EndedAfterFailure /\ [][C21_Step]_vars

\* the call for the second page failed for good after a first page of three
\* items, which stays counted
C21_Witness ==
    /\ input.mode = "maps"
    /\ fetchFailed
    /\ pc = "finish"
    /\ pageCount = 1
    /\ totalResults = 3

(***************************************************************************)
(* C22.  As claimed: when the call for the first page of a query has       *)
(* failed for good, the error is on its way to the catch block of the      *)
(* query loop, and the entry the query gets in processedQueries is an      *)
(* error entry.                                                            *)
(***************************************************************************)
C22_Step ==
    /\ (pc = "failed" /\ page = 0) => pc' = "catch" /\ thrown' # Null
    /\ (/\ fetchFailed
        /\ pageCount = (IF input.mode = "search" THEN 1 ELSE 0)
        /\ Len(Entries') = Len(Entries) + 1)
          => IsErrorEntry(Entries'[Len(Entries')])

C22_FirstPageFailureIsFatal == [][C22_Step]_vars

(***************************************************************************)
(* C23.  One thing happens at a time.  While a page call is in flight,     *)
(* awaiting a retry or failed, the loop body is not running, every page    *)
(* yielded so far for the query has been consumed (counted, and written to *)
(* its page file or searched without a match), and every earlier query has *)
(* its entry in processedQueries and its records.  A page call starts only *)
(* at the head of the loop, for page 0 of the next query, or after the     *)
(* delay that follows the loop body, for the page after the one consumed.  *)
(***************************************************************************)
C23_EarlierQueriesRecorded ==
    /\ Len(Entries) = queryIndex
    /\ \A i \in 1..queryIndex :
          /\ Entries[i].query = queries[i]
          /\ DomainMode => Len(FilesOf(queries[i])) = 1
          /\ (~DomainMode /\ ~IsErrorEntry(Entries[i])) =>
                Len(FilesOf(queries[i])) = Entries[i].pageCount

C23_OneAtATime ==
    pc \in {"fetch", "backoff", "failed"} =>
        /\ attempt \in 1..maxRetries
        /\ result.page = page
        /\ pageCount = page
        /\ thrown = Null
        /\ IF DomainMode
           THEN ~domainFound /\ FilesOf(query) = <<>>
           ELSE /\ Len(FilesOf(query)) = page
                /\ page > 0 =>
                      files[Len(files)] =
                          saveResultsToFile(result.items, query, page)
        /\ C23_EarlierQueriesRecorded

C23_Step ==
    (attempt = 0 /\ attempt' = 1) =>
        \/ /\ pc = "loop"
           /\ page' = 0
           /\ C23_EarlierQueriesRecorded
        \/ /\ pc = "pace"
           /\ page' = page + 1
           /\ pageCount = page + 1
           /\ queryIndex' = queryIndex

C23_Sequential == []C23_OneAtATime /\ [][C23_Step]_vars

\* the call for the second page of the second query is in flight
C23_Witness ==
    /\ pc = "fetch"
    /\ attempt = 1
    /\ queryIndex = 1
    /\ page = 1
    /\ pageCount = 1
    /\ Len(Entries) = 1

(***************************************************************************)
(* C24.  Without a domain configured and with no persistence failure, the  *)
(* loop body writes one page file for the page it consumes, holding the    *)
(* page's items as yielded and the page's number, which is one more than   *)
(* that of the file before; a query's files are its pages 1, 2, ... and    *)
(* are as many as the pages counted; and the loop body leaves the loop     *)
(* itself only when a limit is set and the running total has reached it.   *)
(***************************************************************************)
C24_PageFilesInOrder ==
    ~DomainMode =>
        /\ \A i \in 1..Len(Entries) :
              LET fs == FilesOf(queries[i])
              IN  /\ Len(fs) = Entries[i].pageCount
                  /\ \A k \in 1..Len(fs) :
                        fs[k].kind = "page" /\ fs[k].data.page = k
        /\ pc \in {"fetch", "backoff", "failed", "body", "pace", "finish"} =>
              LET fs == FilesOf(query)
              IN  /\ Len(fs) = pageCount
                  /\ \A k \in 1..Len(fs) :
                        fs[k].kind = "page" /\ fs[k].data.page = k

C24_Step ==
    (~DomainMode /\ pc = "body") =>
        /\ Len(files') = Len(files) + 1
        /\ SubSeq(files', 1, Len(files)) = files
        /\ files'[Len(files')].kind = "page"
        /\ files'[Len(files')].data.query = query
        /\ files'[Len(files')].data.page = pageCount + 1
        /\ files'[Len(files')].data.items = result.items
        /\ pageCount' = pageCount + 1
        /\ pc' = "finish" =>
              maxResults > 0 /\ totalResults' >= maxResults

C24_EveryPagePersisted == []C24_PageFilesInOrder /\ [][C24_Step]_vars

\* the first query was cut short by the limit of 5 after a full first page,
\* which is in its only file with its 10 items
C24_Witness ==
    /\ ~DomainMode
    /\ input.mode = "search"
    /\ maxResults = 5
    /\ Len(Entries) >= 1
    /\ Entries[1].pageCount = 1
    /\ Len(FilesOf(queries[1])) = 1
    /\ Len(FilesOf(queries[1])[1].data.items) = PageSize

(***************************************************************************)
(* C28.  The page calls of one query carry the indices 0, 1, 2, ... in     *)
(* order, sent as 1, 2, 3, ...: the first call of a query is for index 0,  *)
(* every other call starts when a page with items and without an error has *)
(* been consumed and is for the index after that page's, and the index     *)
(* does not change while the attempts of a call go on.  A yielded page has *)
(* at least one item.  When a call is answered without being followed by a *)
(* yield, the paginator has ended and no attempt is in flight.             *)
(***************************************************************************)
C28_IndexIsPagesYielded ==
    /\ pc \in {"fetch", "backoff", "failed"} =>
          /\ page = pageCount
          /\ RequestPage(page) = pageCount + 1
    /\ pc \in {"body", "pace"} =>
          /\ Len(result.items) >= 1
          /\ result.page = RequestPage(page)
    /\ pc \in {"finish", "loop", "done"} =>
          attempt = 0 /\ result = NoResult /\ ~hasMoreResults

C28_Step ==
    /\ (attempt = 0 /\ attempt' = 1) =>
          \/ pc = "loop" /\ page' = 0
          \/ /\ pc = "pace"
             /\ Len(result.items) >= 1
             /\ result.error = Null
             /\ page' = page + 1
    /\ (pc \in {"fetch", "backoff", "failed"} /\ pc' # "finish") =>
          page' = page
    /\ (pc = "fetch" /\ pc' \notin {"fetch", "backoff", "failed"}) =>
          \/ pc' = "body" /\ Len(result'.items) >= 1
          \/ pc' = "finish" /\ attempt' = 0 /\ result' = NoResult
    /\ pc = "finish" => pc' = "loop"

C28_ConsecutivePages == []C28_IndexIsPagesYielded /\ [][C28_Step]_vars

\* the call for index 2, the third of the query, is in flight
C28_Witness ==
    /\ pc = "fetch"
    /\ attempt = 1
    /\ page = 2
    /\ pageCount = 2
    /\ result.page = 2

(***************************************************************************)
(* C30.  When the consumer asks for the page after a yielded one, the      *)
(* search paginator sends a call exactly when the yielded page had 10      *)
(* items, and ends after a page of any other size without a call; the maps *)
(* paginator sends a call after every yielded page.  A page with fewer     *)
(* than 10 items is yielded all the same.                                  *)
(***************************************************************************)
C30_Step ==
    /\ pc = "pace" =>
          IF input.mode = "search"
          THEN /\ pc' = "fetch" <=> Len(result.items) = PageSize
               /\ pc' # "fetch" =>
                     pc' = "finish" /\ attempt' = 0 /\ ~hasMoreResults'
          ELSE pc' = "fetch" /\ attempt' = 1 /\ page' = page + 1
    /\ (pc = "fetch" /\ pc' \in {"body", "finish"}) =>
          (pc' = "body" <=> Len(result'.items) > 0)

C30_FullPageContinues == [][C30_Step]_vars

\* the search paginator ended after a second page of 3 items; no limit and
\* no domain are set, so that nothing but the paginator ended the query
C30_Witness ==
    /\ input.mode = "search"
    /\ ~DomainMode
    /\ isUnlimited
    /\ ~fetchFailed
    /\ pc = "finish"
    /\ pageCount = 2
    /\ totalResults = PageSize + 3

(***************************************************************************)
(* C29.  As claimed: the items of a yielded page that is not an error page *)
(* carry the ranks that follow the number of items yielded before it for   *)
(* the query, so that the k-th item of the query has position k.           *)
(***************************************************************************)
C29_PositionsAreAbsoluteRanks ==
    (pc = "body" /\ result.error = Null) =>
        \A i \in 1..Len(result.items) :
            result.items[i].position = totalResults + i

(***************************************************************************)
(* Vocabulary of the properties of a whole run.                            *)
(***************************************************************************)
\* neither the input nor the environment holds a provider key
KeyUnavailable ==
    /\ input.providerKey \in {Null, ""}
    /\ env.PROVIDER_KEY \in {Null, ""}

\* the input has no query list, or an empty one
QueriesMissing == ~input.queries.set \/ input.queries.value = <<>>

\* the provider name and the mode of the run are those of a provider the
\* factory knows
RegisteredPair == providerName = "serper" /\ mode \in {"search", "maps"}

(***************************************************************************)
(* C25.  A run whose input has no query list or an empty one, or for which *)
(* no provider key is found in the input or in the environment, never      *)
(* leaves its start but to abort with an error: no attempt is ever made,   *)
(* no record written and no query entered in processedQueries.  No run    *)
(* aborts but for these reasons or for a provider the factory does not     *)
(* know.                                                                   *)
(***************************************************************************)
C25_NothingDoneWithoutConfig ==
    /\ (KeyUnavailable \/ QueriesMissing) =>
          /\ pc \in {"start", "aborted"}
          /\ attempt = 0
          /\ files = <<>>
          /\ Entries = <<>>
    /\ pc = "aborted" =>
          /\ thrown # Null
          /\ KeyUnavailable \/ QueriesMissing \/ ~RegisteredPair

C25_Step ==
    (pc = "start" /\ (KeyUnavailable \/ QueriesMissing)) =>
        /\ pc' = "aborted"
        /\ thrown' # Null
        /\ files' = files
        /\ attempt' = 0

C25_ConfigErrorAborts == []C25_NothingDoneWithoutConfig /\ [][C25_Step]_vars

\* the run aborted for want of a query list, with a key in the environment
C25_Witness ==
    /\ pc = "aborted"
    /\ ~input.queries.set
    /\ input.providerKey = Null
    /\ env.PROVIDER_KEY = "envkey"
    /\ thrown = "No queries provided"

(***************************************************************************)
(* C27.  As claimed: a run that starts with a stored ACTOR_STATE enters    *)
(* the query loop at the first query that has no entry in processedQueries *)
(* yet, and no query ever has two entries there.                           *)
(***************************************************************************)
C27_NoQueryRecordedTwice ==
    \A i, j \in 1..Len(Entries) :
        i # j => Entries[i].query # Entries[j].query

C27_Step ==
    (pc = "start" /\ pc' = "loop") => queryIndex' = Len(Entries')

C27_ResumeSkipsProcessed == []C27_NoQueryRecordedTwice /\ [][C27_Step]_vars

(***************************************************************************)
(* C26.  As claimed: when the input lists several target domains, the run  *)
(* ends with a summary for every query and every listed target.            *)
(***************************************************************************)
C26_SummaryPerQueryAndTarget ==
    (pc = "done" /\ input.domains # <<>>) =>
        \A i \in 1..Len(inputQueries) :
            \A t \in 1..Len(input.domains) :
                \E k \in 1..Len(files) :
                    /\ files[k].kind = "match"
                    /\ files[k].data.keyword = inputQueries[i]
                    /\ files[k].data.domain = input.domains[t]

(***************************************************************************)
(* C31.  In a process, processedQueries only grows at its end and          *)
(* actorState.totalResults never decreases.  The loop moves to the next    *)
(* query exactly when it pushes an entry, one at a time, which is either a *)
(* completion entry or an error entry; and every query starts with a       *)
(* running total of 0, no page counted and the match flag down.            *)
(***************************************************************************)
IsCompletionEntry(e) ==
    "totalResults" \in DOMAIN e /\ "pageCount" \in DOMAIN e

C31_BetweenQueries ==
    /\ Len(Entries) = queryIndex
    /\ pc \in {"loop", "done"} =>
          totalResults = 0 /\ pageCount = 0 /\ ~domainFound

C31_Step ==
    /\ actorState'.totalResults >= actorState.totalResults
    /\ Len(Entries') >= Len(Entries)
    /\ SubSeq(Entries', 1, Len(Entries)) = Entries
    /\ (queryIndex' # queryIndex \/ Len(Entries') # Len(Entries)) =>
          /\ pc \in {"finish", "catch"}
          /\ queryIndex' = queryIndex + 1
          /\ Len(Entries') = Len(Entries) + 1
          /\ Entries'[Len(Entries')].query = query
          /\ IsErrorEntry(Entries'[Len(Entries')])
                <=> ~IsCompletionEntry(Entries'[Len(Entries')])
          /\ IsErrorEntry(Entries'[Len(Entries')]) <=> pc = "catch"
    /\ (pc = "loop" /\ pc' = "fetch") =>
          totalResults' = 0 /\ pageCount' = 0 /\ ~domainFound'

C32_NotFoundText == "Provider \"" \o providerName \o "-" \o mode \o "\" not found"

C32_FactoryByMode ==
    /\ ~RegisteredPair =>
          /\ pc \in {"start", "aborted"}
          /\ attempt = 0
          /\ files = <<>>
          /\ (pc = "aborted" /\ ~KeyUnavailable) => thrown = C32_NotFoundText
    /\ (pc \in {"body", "pace"} /\ result.error = Null) =>
          \A i \in 1..Len(result.items) :
              /\ mode = "search" =>
                    /\ "link" \in DOMAIN result.items[i]
                    /\ result.hasMorePages = (Len(result.items) = PageSize)
              /\ mode = "maps" =>
                    /\ "website" \in DOMAIN result.items[i]
                    /\ "link" \notin DOMAIN result.items[i]
                    /\ result.hasMorePages

\* the run aborted on mode images, for which serper has no provider
C32_Witness ==
    /\ pc = "aborted"
    /\ input.mode = "images"
    /\ input.provider = "serper"
    /\ thrown = "Provider \"serper-images\" not found"

(***************************************************************************)
(* C33.  With a result limit N > 0, every consumed page adds at least one  *)
(* item to the running total, so that the pages consumed for a query never *)
(* outnumber the items counted nor N, and no page is awaited once N pages  *)
(* are consumed.  Every step of the run lowers a measure that is a natural *)
(* number (queries left, then pages left within N, then attempts left for  *)
(* the call, then the stages of a page), so that no run goes on for ever.  *)
(***************************************************************************)
C33_Stage ==
    CASE pc = "fetch" -> 2 * (maxRetries - attempt) + 4
      [] pc = "backoff" -> 2 * (maxRetries - attempt) + 3
      [] pc = "failed" -> 3
      [] pc = "body" -> 2
      [] pc = "pace" -> 9
      [] pc = "finish" -> 1
      [] OTHER -> 0

C33_Measure ==
    LET perQuery == 9 * maxResults + 10
        pagesLeft == IF pc \in {"fetch", "backoff", "failed", "body", "pace"}
                     THEN maxResults - pageCount
                     ELSE 0
    IN  IF pc = "done" THEN 0
        ELSE IF pc = "loop"
             THEN (Len(inputQueries) - queryIndex) * perQuery + perQuery - 1
        ELSE (Len(inputQueries) - queryIndex) * perQuery
                 + 9 * pagesLeft + C33_Stage

C33_AtMostNPages ==
    maxResults > 0 =>
        /\ pageCount <= totalResults
        /\ pageCount <= maxResults
        /\ pc \in {"fetch", "backoff", "failed", "body", "pace"} =>
              pageCount < maxResults
        /\ C33_Measure >= 0

C33_Step ==
    maxResults > 0 =>
        /\ C33_Measure' < C33_Measure
        /\ pc = "body" => totalResults' >= totalResults + 1

C33_QueryTerminates == []C33_AtMostNPages /\ [][C33_Step]_vars

\* with a limit of 2, the second page of one item each has been consumed
\* and has ended the query, with a third page on offer
C33_Witness ==
    /\ maxResults = 2
    /\ input.mode = "maps"
    /\ pc = "finish"
    /\ pageCount = 2
    /\ totalResults = 2
    /\ ~fetchFailed

(***************************************************************************)
(* C34.  With the search provider and a result limit N > 0, the page calls *)
(* of a query number at most ceil(N / 10) and its HTTP attempts at most 3  *)
(* times as many: a page call that is not the first of its query starts    *)
(* only after a page of exactly 10 items, and each call has at most 3      *)
(* attempts.                                                               *)
(***************************************************************************)
C34_MaxCalls == (maxResults + 9) \div 10

C34_CallsWithinBudget ==
    (input.mode = "search" /\ maxResults > 0) =>
        /\ attemptsSent <= 3 * C34_MaxCalls
        /\ pc \in {"fetch", "backoff", "failed"} =>
              /\ page + 1 <= C34_MaxCalls
              /\ attempt <= 3
              /\ attemptsSent <= 3 * page + attempt
        /\ pc \in {"body", "pace"} => result.page <= C34_MaxCalls

C34_Step ==
    (input.mode = "search" /\ maxResults > 0) =>
        /\ attemptsSent' # attemptsSent =>
              \/ attemptsSent' = 0 /\ pc' = "loop"
              \/ attemptsSent' = attemptsSent + 1 /\ pc' = "fetch"
        /\ (pc = "pace" /\ pc' = "fetch") =>
              /\ Len(result.items) = 10
              /\ totalResults = 10 * (page + 1)
              /\ totalResults < maxResults

C34_BoundedCalls == []C34_CallsWithinBudget /\ [][C34_Step]_vars

\* with a limit of 15, the third attempt of the second call is in flight
\* after a first call that took three attempts
C34_Witness ==
    /\ input.mode = "search"
    /\ maxResults = 15
    /\ pc = "fetch"
    /\ page = 1
    /\ attempt = 3
    /\ attemptsSent = 6

(***************************************************************************)
(* C35.  The exact and the subdomain tier admit nothing that the partial   *)
(* tier rejects: findFirstDomainMatch returns the first item of the batch  *)
(* of whose hostname every dot-delimited segment of the target is a        *)
(* substring of some segment, and returns no match exactly when the batch  *)
(* has no such item.                                                       *)
(***************************************************************************)
PartialTierOnly(host, target) ==
    \A t \in Segments(target) : \E h \in Segments(host) : IsSubstringOf(t, h)

C35_PartialTierDecides ==
    MatcherReturned =>
        LET items == result.items
            target == TargetOf(input.domain)
            M == {i \in 1..Len(items) :
                    PartialTierOnly(HostnameOf(items[i]), target)}
        IN  /\ target # <<>>
            /\ \A i \in 1..Len(items) :
                  SatisfiesATier(HostnameOf(items[i]), target) <=> i \in M
            /\ IF M = {} THEN ~call.ret.found
               ELSE /\ call.ret.found
                    /\ \E i \in M :
                          /\ \A m \in M : i <= m
                          /\ call.ret.link = items[i].link
                          /\ call.ret.position = items[i].position

\* 'blog.example.com', which the subdomain tier admits for 'example.com',
\* was returned
C35_Witness ==
    /\ MatcherReturned
    /\ Len(result.items) = 1
    /\ TargetOf(input.domain) = DomainExampleCom
    /\ HostnameOf(result.items[1]) = HostBlogExampleCom
    /\ call.ret.found

(***************************************************************************)
(* C36.  What findFirstDomainMatch returns is an item of the batch whose   *)
(* link is a URL with a hostname: never an item without a link, with an    *)
(* empty link or with a link that is no URL, and so never the item of an   *)
(* error page.  Without a target it returns no match.                      *)
(***************************************************************************)
C36_OnlyParseableLinks ==
    MatcherReturned =>
        /\ call.ret.found =>
              /\ \E i \in 1..Len(result.items) :
                    /\ "link" \in DOMAIN result.items[i]
                    /\ result.items[i].link = call.ret.link
                    /\ result.items[i].position = call.ret.position
              /\ call.ret.link \notin {<<>>, LinkNoScheme}
              /\ call.ret.link[1] = Scheme
              /\ Len(call.ret.link) >= 2
        /\ result.error # Null => ~call.ret.found
        /\ input.domain = NoDomain => ~call.ret.found

\* the second item was returned: the first has the target as its link, but
\* without a scheme, and is no URL
C36_Witness ==
    /\ MatcherReturned
    /\ input.mode = "search"
    /\ input.domain = DomainExampleCom
    /\ Len(result.items) = 2
    /\ result.items[1].link = LinkNoScheme
    /\ result.items[2].link = LinkExampleCom
    /\ call.ret.found
    /\ call.ret.position = 2

(***************************************************************************)
(* C37.  In maps mode with a domain configured the match flag never goes   *)
(* up and no match summary is ever written, whatever websites the places   *)
(* have: the items of a maps page have no link.  Every query the loop has  *)
(* left has a not-found summary as its only record.                        *)
(***************************************************************************)
C37_MapsNeverMatches ==
    (input.mode = "maps" /\ DomainMode) =>
        /\ ~domainFound
        /\ \A k \in 1..Len(files) : ~IsMatchSummary(files[k])
        /\ pc \in {"body", "pace"} =>
              \A i \in 1..Len(result.items) :
                  "link" \notin DOMAIN result.items[i]
        /\ \A i \in 1..Len(Entries) :
              /\ Len(FilesOf(queries[i])) = 1
              /\ IsNotFoundSummary(FilesOf(queries[i])[1])

\* a page of the second query has been consumed without a match although
\* its fifth place has the target's site as its website; the first query
\* has its not-found summary
C37_Witness ==
    /\ input.mode = "maps"
    /\ DomainMode
    /\ pc = "pace"
    /\ queryIndex = 1
    /\ Len(Entries) = 1
    /\ Len(result.items) = PageSize
    /\ result.items[5].website = LinkExact

(***************************************************************************)
(* C38.  As claimed: on the platform, once the query loop is over and the  *)
(* main module has cleared ACTOR_STATE, the key-value store holds no       *)
(* ACTOR_STATE, whatever listeners run.                                    *)
(***************************************************************************)
C38_StateStaysCleared ==
    (env.actor /\ pc = "done") => ~env.ACTOR_STATE.set

(***************************************************************************)
(* C39.  In a process that started without a stored state,                 *)
(* actorState.totalResults is the sum of the totalResults of the           *)
(* completion entries of processedQueries: the items a query counted       *)
(* before it ended in the catch block are not in it.                       *)
(***************************************************************************)
RECURSIVE SumOfCompleted(_)
SumOfCompleted(entries) ==
    IF entries = <<>> THEN 0
    ELSE (IF IsErrorEntry(Head(entries)) THEN 0 ELSE Head(entries).totalResults)
            + SumOfCompleted(Tail(entries))

C39_TotalIsSumOfEntries ==
    actorState.totalResults = SumOfCompleted(Entries)

\* the first query ended in the catch block after its first page was
\* counted and written, the second completed with 3 items
C39_Witness ==
    /\ pc = "loop"
    /\ Len(Entries) = 2
    /\ IsErrorEntry(Entries[1])
    /\ Len(FilesOf(queries[1])) = 2
    /\ ~IsErrorEntry(Entries[2])
    /\ Entries[2].totalResults = 3
    /\ actorState.totalResults = 3

====
